---- MODULE Spec2Model ----
(***************************************************************************)
(* DigiMesh framing codec: the stream parser digimesh_parse_bytes, the     *)
(* single-frame extractor digimesh_extract_first_digimesh_packet and the   *)
(* compaction step shuffle_array_bytes_down.                               *)
(*                                                                         *)
(* C arrays are modelled as sequences; the C index i is the TLA+ index     *)
(* i + 1.  A buffer is the sequence of its bytes written so far.           *)
(***************************************************************************)
EXTENDS Integers, Sequences, FiniteSets, TLC

(***************************************************************************)
(* Program constants                                                       *)
(***************************************************************************)
START_DELIMITER == 126

MAX_FRAME_SIZE == 128

DIGIMESH_OK == "DIGIMESH_OK"

DIGIMESH_ERROR == "DIGIMESH_ERROR"

(***************************************************************************)
(* Bounds of the model                                                     *)
(***************************************************************************)
MaxLen == 4

MaxBody == 1

MaxGarbage == 1

MaxCalls == 2

MaxAppends == 1

\* every value of at most this many bytes is given to the validator
MaxValueLen == 2

\* every payload of at most this many bytes is given to the encoder
MaxPayload == 1

\* a behaviour of the address registry makes at most this many calls
MaxRegCalls == 4

(***************************************************************************)
(* Fixed-width arithmetic and array helpers                                *)
(***************************************************************************)
U8(x) == x % 256

U16(x) == x % 65536

At(arr, i) == arr[i + 1]

Max(a, b) == IF a > b THEN a ELSE b

Zeros(n) == [i \in 1..n |-> 0]

\* arr[i] = b on a buffer whose first Len(arr) bytes have been written
WriteAt(arr, i, b) ==
    IF i < Len(arr) THEN [arr EXCEPT ![i + 1] = b] ELSE Append(arr, b)

\* memcpy(dst, src, Len(src)) at offset 0
CopyToFront(dst, src) ==
    IF Len(src) >= Len(dst) THEN src
    ELSE src \o SubSeq(dst, Len(src) + 1, Len(dst))

(***************************************************************************)
(* calculate_crc: the length is (bytes[1] << 8 & 0xFF) | bytes[2]; in C    *)
(* the shift binds tighter than &, so the high byte is masked to its low   *)
(* eight bits, which after the shift are all zero.                         *)
(***************************************************************************)
PayloadLen(b1, b2) == ((b1 * 256) % 256) + b2

\* the uint8_t sum of bytes[3 + idx] for lo <= idx < hi; uint8_t addition is
\* associative, so the range is halved to keep the evaluation shallow
RECURSIVE CrcSum(_, _, _)
CrcSum(bytes, lo, hi) ==
    IF hi <= lo THEN 0
    ELSE IF hi = lo + 1 THEN At(bytes, 3 + lo)
    ELSE LET mid == (lo + hi) \div 2
         IN  U8(CrcSum(bytes, lo, mid) + CrcSum(bytes, mid, hi))

\* calculate_crc without the final crc = 0xFF - crc
calculate_crc_sum_only(bytes) ==
    LET length == PayloadLen(At(bytes, 1), At(bytes, 2))
    IN  CrcSum(bytes, 0, length)

calculate_crc(bytes) ==
    LET length == PayloadLen(At(bytes, 1), At(bytes, 2))
    IN  U8(255 - CrcSum(bytes, 0, length))

(***************************************************************************)
(* shuffle_array_bytes_down                                                *)
(***************************************************************************)
\* shuffle_array_bytes_down copying from input instead of input + *tail
shuffle_array_bytes_down_from_start(input, tail, head) ==
    LET size_of_copy == U16(head - tail)
        copy == SubSeq(input, 1, size_of_copy)
    IN  [input |-> copy \o Zeros(head - size_of_copy)
                        \o SubSeq(input, head + 1, Len(input)),
         tail  |-> 0,
         head  |-> size_of_copy]

shuffle_array_bytes_down(input, tail, head) ==
    LET size_of_copy == U16(head - tail)
        copy == SubSeq(input, tail + 1, tail + size_of_copy)
    IN  [input |-> copy \o Zeros(head - size_of_copy)
                        \o SubSeq(input, head + 1, Len(input)),
         tail  |-> 0,
         head  |-> size_of_copy]

(***************************************************************************)
(* The scan state of one call.  in_default is set when the switch takes    *)
(* its default branch (return DIGIMESH_ERROR from inside the loop).        *)
(* max_idx (highest index of new_frame written) and emitted (the blocks    *)
(* copied out) are history fields.                                         *)
(***************************************************************************)
ScanInit(tail, new_frame, output, output_head) ==
    [state        |-> "START",
     frame_count  |-> 0,
     tail         |-> tail,
     new_frame    |-> new_frame,
     output       |-> output,
     output_head  |-> output_head,
     packet_found |-> FALSE,
     in_default   |-> FALSE,
     max_idx      |-> -1,
     emitted      |-> << >>]

\* new_frame[frame_count] = b; frame_count++  (frame_count is a uint8_t)
StageByte(sc, b) ==
    [sc EXCEPT !.new_frame   = WriteAt(@, sc.frame_count, b),
               !.max_idx     = Max(@, sc.frame_count),
               !.frame_count = U8(@ + 1)]

\* the check made on every byte before the switch
RestartOnDelimiter(sc, b) ==
    IF b = START_DELIMITER
    THEN [sc EXCEPT !.tail = U16(@ + sc.frame_count),
                    !.state = "START",
                    !.frame_count = 0]
    ELSE sc

\* ParseIteration without the frame_count++ of the checksum-mismatch branch
ParseIteration_keeps_bad_crc(sc0, b) ==
    LET sc == RestartOnDelimiter(sc0, b)
    IN  CASE sc.state = "START" ->
               IF b = START_DELIMITER
               THEN [StageByte(sc, b) EXCEPT !.state = "LEN0"]
               ELSE [sc EXCEPT !.tail = U16(@ + 1)]
          [] sc.state = "LEN0" -> [StageByte(sc, b) EXCEPT !.state = "LEN1"]
          [] sc.state = "LEN1" -> [StageByte(sc, b) EXCEPT !.state = "BYTES"]
          [] sc.state = "BYTES" ->
               LET payload_len == PayloadLen(At(sc.new_frame, 1), At(sc.new_frame, 2))
               IN  IF sc.frame_count < payload_len + 3
                   THEN StageByte(sc, b)
                   ELSE LET crc == calculate_crc(sc.new_frame)
                        IN  IF crc = b
                            THEN LET st == StageByte(sc, crc)
                                     frame == SubSeq(st.new_frame, 1, st.frame_count)
                                 IN  [st EXCEPT
                                        !.output = CopyToFront(@, frame),
                                        !.tail = U16(@ + st.frame_count),
                                        !.output_head = U16(@ + st.frame_count),
                                        !.emitted = IF frame = << >> THEN @
                                                    ELSE Append(@, frame),
                                        !.state = "START",
                                        !.frame_count = 0]
                            ELSE [sc EXCEPT
                                    !.tail = U16(@ + sc.frame_count),
                                    !.state = "START",
                                    !.frame_count = 0]
          [] OTHER -> [sc EXCEPT !.in_default = TRUE]

\* one iteration of the for loop of digimesh_parse_bytes
ParseIteration(sc0, b) ==
    LET sc == RestartOnDelimiter(sc0, b)
    IN  CASE sc.state = "START" ->
               IF b = START_DELIMITER
               THEN [StageByte(sc, b) EXCEPT !.state = "LEN0"]
               ELSE [sc EXCEPT !.tail = U16(@ + 1)]
          [] sc.state = "LEN0" -> [StageByte(sc, b) EXCEPT !.state = "LEN1"]
          [] sc.state = "LEN1" -> [StageByte(sc, b) EXCEPT !.state = "BYTES"]
          [] sc.state = "BYTES" ->
               LET payload_len == PayloadLen(At(sc.new_frame, 1), At(sc.new_frame, 2))
               IN  IF sc.frame_count < payload_len + 3
                   THEN StageByte(sc, b)
                   ELSE LET crc == calculate_crc(sc.new_frame)
                        IN  IF crc = b
                            THEN LET st == StageByte(sc, crc)
                                     frame == SubSeq(st.new_frame, 1, st.frame_count)
                                 IN  [st EXCEPT
                                        !.output = CopyToFront(@, frame),
                                        !.tail = U16(@ + st.frame_count),
                                        !.output_head = U16(@ + st.frame_count),
                                        !.emitted = IF frame = << >> THEN @
                                                    ELSE Append(@, frame),
                                        !.state = "START",
                                        !.frame_count = 0]
                            ELSE [sc EXCEPT
                                    !.tail = U16(@ + U8(sc.frame_count + 1)),
                                    !.state = "START",
                                    !.frame_count = 0]
          [] OTHER -> [sc EXCEPT !.in_default = TRUE]

\* the scan state after the loop iterations lo <= idx < hi; the loop ends
\* when the default branch returns
RECURSIVE ParseLoop(_, _, _, _)
ParseLoop(sc, input, lo, hi) ==
    IF hi <= lo \/ sc.in_default THEN sc
    ELSE IF hi = lo + 1 THEN ParseIteration(sc, At(input, lo))
    ELSE LET mid == (lo + hi) \div 2
         IN  ParseLoop(ParseLoop(sc, input, lo, mid), input, mid, hi)

\* the whole call; the local new_frame array starts with nothing written
digimesh_parse_bytes(input, input_head, input_tail, output, output_head) ==
    LET sc == ParseLoop(ScanInit(input_tail, << >>, output, output_head),
                        input, 0, input_head)
        sh == IF sc.in_default
              THEN [input |-> input, tail |-> sc.tail, head |-> input_head]
              ELSE shuffle_array_bytes_down(input, sc.tail, input_head)
    IN  [input |-> sh.input, input_head |-> sh.head, input_tail |-> sh.tail,
         output |-> sc.output, output_head |-> sc.output_head,
         status |-> IF sc.in_default THEN DIGIMESH_ERROR ELSE DIGIMESH_OK,
         consumed |-> sc.tail, max_idx |-> sc.max_idx, emitted |-> sc.emitted]

\* one iteration of the for loop of digimesh_extract_first_digimesh_packet
ExtractIteration(sc0, b) ==
    LET sc == RestartOnDelimiter(sc0, b)
    IN  CASE sc.state = "START" ->
               IF b = START_DELIMITER
               THEN [StageByte(sc, b) EXCEPT !.state = "LEN0"]
               ELSE [sc EXCEPT !.tail = U16(@ + 1)]
          [] sc.state = "LEN0" -> [StageByte(sc, b) EXCEPT !.state = "LEN1"]
          [] sc.state = "LEN1" -> [StageByte(sc, b) EXCEPT !.state = "BYTES"]
          [] sc.state = "BYTES" ->
               LET payload_len == PayloadLen(At(sc.new_frame, 1), At(sc.new_frame, 2))
               IN  IF sc.frame_count < payload_len + 3
                   THEN StageByte(sc, b)
                   ELSE LET crc == calculate_crc(sc.new_frame)
                        IN  IF crc = b
                            THEN LET st == StageByte(sc, crc)
                                     frame == SubSeq(st.new_frame, 1, st.frame_count)
                                 IN  [st EXCEPT
                                        !.tail = U16(@ + st.frame_count),
                                        !.emitted = IF frame = << >> THEN @
                                                    ELSE Append(@, frame),
                                        !.packet_found = TRUE]
                            ELSE [sc EXCEPT
                                    !.tail = U16(@ + U8(sc.frame_count + 1)),
                                    !.state = "START",
                                    !.frame_count = 0]
          [] OTHER -> [sc EXCEPT !.in_default = TRUE]

\* the scan state after the loop iterations lo <= idx < hi; the loop ends
\* as soon as packet_found is set or the default branch returns
RECURSIVE ExtractLoop(_, _, _, _)
ExtractLoop(sc, input, lo, hi) ==
    IF hi <= lo \/ sc.packet_found \/ sc.in_default THEN sc
    ELSE IF hi = lo + 1 THEN ExtractIteration(sc, At(input, lo))
    ELSE LET mid == (lo + hi) \div 2
         IN  ExtractLoop(ExtractLoop(sc, input, lo, mid), input, mid, hi)

\* the whole call; new_frame is the caller's array
digimesh_extract_first_digimesh_packet(input, head, tail, new_frame) ==
    LET sc == ExtractLoop(ScanInit(tail, new_frame, << >>, 0), input, 0, head)
        sh == IF sc.in_default
              THEN [input |-> input, tail |-> sc.tail, head |-> head]
              ELSE shuffle_array_bytes_down(input, sc.tail, head)
    IN  [input |-> sh.input, head |-> sh.head, tail |-> sh.tail,
         new_frame |-> sc.new_frame,
         status |-> IF sc.packet_found /\ ~sc.in_default
                    THEN DIGIMESH_OK ELSE DIGIMESH_ERROR,
         consumed |-> sc.tail, max_idx |-> sc.max_idx, emitted |-> sc.emitted]

(***************************************************************************)
(* The caller's state.  The history variables op .. ops record what the    *)
(* last call was given and what it did.                                    *)
(***************************************************************************)
VARIABLES
    input,        \* the caller's input array
    input_head,   \* number of bytes to parse in input
    input_tail,   \* position parsed up to
    output,       \* the caller's output array of digimesh_parse_bytes
    output_head,  \* number of bytes written to output
    new_frame,    \* the caller's frame array of the extractor
    status,       \* value returned by the last call
    pc,           \* "run", or "crashed" once a call did not return
    op,           \* history: the last operation
    span,         \* history: input[0..input_head) on entry to the last call
    emitted,      \* history: the frames copied out by the last call
    consumed,     \* history: the consumed boundary when the last scan ended
    max_idx,      \* history: highest staging index written by the last call
    log,          \* history: the frames copied out by all calls so far
    stream,       \* history: all bytes given to the parser so far
    ops,          \* history: the operations so far
    field,        \* the field given to the last encoder or validator call
    value,        \* the value given to the last encoder or validator call
    destination,  \* the address given to the last transmit request call
    payload,      \* the payload given to the last transmit request call
    message,      \* the caller's frame array of the encoders
    message_in,   \* history: message on entry to the last encoder call
    written,      \* history: number of bytes the last encoder call wrote
    valid,        \* history: what value_is_valid returned in the last call
    rx_frame,     \* the caller's frame array given to an inspector
    beyond,       \* the byte an inspector finds behind the end of rx_frame
    result,       \* value returned by the last inspector call
    copied,       \* the bytes the last inspector call copied out
    digi_serial,  \* digi.serial of the address registry
    serial_out,   \* the caller's digi_serial_t filled by digi_get_serial
    initialized,  \* what digi_is_initialized returned in the last call
    reg_ops       \* history: the registry calls so far, with their serials

parseVars == <<input, input_head, input_tail, output, output_head, new_frame,
               span, emitted, consumed, max_idx, log, stream, ops>>

encVars == <<field, value, destination, payload, message, message_in,
             written, valid>>

insVars == <<rx_frame, beyond, result, copied>>

regVars == <<digi_serial, serial_out, initialized, reg_ops>>

vars == <<input, input_head, input_tail, output, output_head, new_frame,
          status, pc, op, span, emitted, consumed, max_idx, log, stream, ops,
          field, value, destination, payload, message, message_in, written,
          valid, rx_frame, beyond, result, copied, digi_serial, serial_out,
          initialized, reg_ops>>

(***************************************************************************)
(* Inputs                                                                  *)
(***************************************************************************)
Bytes == {0, 1, 126, 129, 255}

GarbageBytes == {0, 255}

SeqsOver(S, n) == UNION {[1..k -> S] : k \in 0..n}

\* s[lo] + ... + s[hi]
RECURSIVE SumRange(_, _, _)
SumRange(s, lo, hi) ==
    IF hi < lo THEN 0
    ELSE IF hi = lo THEN s[lo]
    ELSE LET mid == (lo + hi) \div 2
         IN  SumRange(s, lo, mid) + SumRange(s, mid + 1, hi)

\* the checksum of the wire format: 0xFF - (sum of TYPE..BODY mod 256)
WireChecksum(body) == 255 - (SumRange(body, 1, Len(body)) % 256)

\* the frame of the wire format carrying body
MkFrame(body) ==
    <<START_DELIMITER, Len(body) \div 256, Len(body) % 256>>
        \o body \o <<WireChecksum(body)>>

\* the frame with its checksum byte replaced by c
WithChecksum(frame, c) == [frame EXCEPT ![Len(frame)] = c]

\* input of TEST(Test, parse_digimesh_local_at_response)
TestFrameNI == <<126, 0, 5, 136, 1, 78, 73, 0, 223>>

TestInputLocalAt == <<1, 0, 3, 153, 16>> \o TestFrameNI \o <<153, 35, 0, 255>>

\* input of TEST(Test, parse_digimesh_receive_packet)
TestFrameReceive ==
    <<126, 0, 15, 144, 255, 255, 255, 255, 255, 255, 255, 255, 255, 254,
      1, 97, 98, 99, 83>>

TestInputReceive == <<126, 126, 0, 1>> \o TestFrameReceive \o <<126, 85>>

\* input of TEST(Test, extract_a_frame_from_an_array_of_frames)
TestFrameCH == <<126, 0, 5, 136, 1, 67, 72, 0, 235>>

TestFrameReceive2 ==
    <<126, 0, 15, 144, 255, 255, 255, 255, 255, 255, 255, 255, 255, 254,
      1, 97, 115, 100, 65>>

TestInputThreeFrames == TestFrameCH \o TestFrameNI \o TestFrameReceive2

TestInputs == {TestInputLocalAt, TestInputReceive, TestInputThreeFrames}

SmallFrames == {MkFrame(b) : b \in SeqsOver(Bytes, MaxBody)} \cup {TestFrameNI}

Garbage == SeqsOver(GarbageBytes, MaxGarbage)

\* a frame, intact or with an altered checksum byte
Altered(f) == {WithChecksum(f, c) : c \in {U8(f[Len(f)] + 1), START_DELIMITER} \ {f[Len(f)]}}

FirstItems == SmallFrames \cup UNION {Altered(f) : f \in SmallFrames}

\* garbage + frame + garbage
SandwichInputs == {g1 \o f \o g2 : g1 \in Garbage, f \in SmallFrames, g2 \in Garbage}

\* garbage + (frame or altered frame) + garbage + frame
TwoFrameInputs ==
    {g1 \o a \o g2 \o b : g1 \in Garbage, a \in FirstItems,
                         g2 \in Garbage, b \in SmallFrames}

\* candidates whose declared body reaches the end of the staging array or
\* of the 8-bit frame counter, followed by a byte at the checksum position
LongLens == {MAX_FRAME_SIZE - 4, MAX_FRAME_SIZE - 3, MAX_FRAME_SIZE - 1, 252, 255}

\* the frames of the wire format with a body of L zero bytes
LongFrames == {MkFrame(Zeros(L)) : L \in LongLens}

LongHeads == {<< >>, <<0>>, WithChecksum(MkFrame(<<0>>), 0)}

LongTails == {<< >>, <<255>>, TestFrameNI}

LongInputs ==
    {g \o WithChecksum(f, c) \o t :
        g \in LongHeads, f \in LongFrames, c \in {0, 255}, t \in LongTails}

Inputs == SeqsOver(Bytes, MaxLen) \cup SandwichInputs \cup TwoFrameInputs
            \cup LongInputs \cup TestInputs

\* what the caller may append after a call
Chunks(sofar) ==
    {c \in SeqsOver(Bytes, MaxLen) : c # << >> /\ Len(sofar) + Len(c) <= MaxLen}
        \cup {MkFrame(<<0>>)}

Count(s, x) == Cardinality({i \in 1..Len(s) : s[i] = x})

(***************************************************************************)
(* Field validator and frame encoders                                      *)
(***************************************************************************)
DIGIMESH_MAXIMUM_FRAME_SIZE == 128

DIGIMESH_MAX_PAYLOAD_SIZE == 65

DIGIMESH_SERIAL_NUMBER_LENGTH == 8

\* digimesh_at_command_t
DIGIMESH_AT_ID == 0

DIGIMESH_AT_CH == 1

DIGIMESH_AT_NI == 2

DIGIMESH_AT_SM == 3

DIGIMESH_AT_SN == 4

DIGIMESH_AT_SO == 5

DIGIMESH_AT_ST == 6

DIGIMESH_AT_SP == 7

DIGIMESH_AT_WH == 8

DIGIMESH_AT_SH == 9

DIGIMESH_AT_SL == 10

DIGIMESH_AT_WR == 11

DIGIMESH_AT_END == 12

\* digimesh_at_command_value_len_t
DIGIMESH_AT_SM_LEN == 1

DIGIMESH_AT_SN_LEN == 2

DIGIMESH_AT_SO_LEN == 2

DIGIMESH_AT_ST_LEN == 3

DIGIMESH_AT_SH_LEN == 0

DIGIMESH_AT_SL_LEN == 0

\* digimesh_frame_type_t
DIGIMESH_FRAME_TYPE_LOCAL_AT == 8

DIGIMESH_FRAME_TYPE_TRANSMIT_REQUEST == 16

\* the table has DIGIMESH_AT_END rows and eleven initialisers: the row of
\* DIGIMESH_AT_WR is zero-initialised
digi_at_command_strings ==
    << <<73, 68>>,    \* 'I','D'
       <<67, 72>>,    \* 'C','H'
       <<78, 73>>,    \* 'N','I'
       <<83, 77>>,    \* 'S','M'
       <<83, 78>>,    \* 'S','N'
       <<83, 79>>,    \* 'S','O'
       <<83, 84>>,    \* 'S','T'
       <<83, 80>>,    \* 'S','P'
       <<87, 72>>,    \* 'W','H'
       <<83, 72>>,    \* 'S','H'
       <<83, 76>>,    \* 'S','L'
       <<0, 0>> >>

\* a | b
RECURSIVE BitOr(_, _)
BitOr(a, b) ==
    IF a = 0 THEN b
    ELSE IF b = 0 THEN a
    ELSE (IF a % 2 = 1 \/ b % 2 = 1 THEN 1 ELSE 0)
            + 2 * BitOr(a \div 2, b \div 2)

\* A uint32_t is kept as its four bytes, least significant first.
Zero32 == <<0, 0, 0, 0>>

Or32(a, b) == [j \in 1..4 |-> BitOr(a[j], b[j])]

\* a <= k and a >= k for a constant k below 2^31
LessEq32(a, k) ==
    a[4] < 128 /\ a[1] + 256 * a[2] + 65536 * a[3] + 16777216 * a[4] <= k

GreaterEq32(a, k) ==
    a[4] >= 128 \/ a[1] + 256 * a[2] + 65536 * a[3] + 16777216 * a[4] >= k

\* data[i] << (i*8) as a 32-bit pattern.  A shift by 32 or more is undefined:
\* the build either uses the low five bits of the count ("masked") or
\* shifts every bit out ("zero").
\* variant: data[i] without the shift
ShiftedByte_unshifted(data, i, wide) ==
    [Zero32 EXCEPT ![1] = At(data, i)]

ShiftedByte(data, i, wide) ==
    IF i * 8 < 32 \/ wide = "masked"
    THEN [Zero32 EXCEPT ![((i * 8) % 32) \div 8 + 1] = At(data, i)]
    ELSE Zero32

\* num after the iterations lo .. hi-1 of the loop, started from 0
RECURSIVE OrBytes(_, _, _, _)
OrBytes(data, lo, hi, wide) ==
    IF hi <= lo THEN Zero32
    ELSE IF hi = lo + 1 THEN ShiftedByte(data, lo, wide)
    ELSE LET mid == (lo + hi) \div 2
         IN  Or32(OrBytes(data, lo, mid, wide), OrBytes(data, mid, hi, wide))

\* the values the call can return
convert_little_endian_array_to_32bit(data, data_length) ==
    {OrBytes(data, 0, data_length, wide) : wide \in {"masked", "zero"}}

\* case DIGIMESH_AT_NI of the switch of value_is_valid
\* variant: case DIGIMESH_AT_NI with the length test only
FieldRuleNI_length_only(v, value_length) ==
    IF ~(value_length > 20) THEN TRUE ELSE FALSE

FieldRuleNI(v, value_length) ==
    IF ~(value_length > 20)
    THEN \A idx \in 0..(value_length - 1) :
            ~(At(v, idx) < 0 \/ At(v, idx) > 127)
    ELSE FALSE

\* case DIGIMESH_AT_SH of the switch of value_is_valid
\* variant: a serial-high value may be one byte long
FieldRuleSH_one_byte(value_length) == value_length <= DIGIMESH_AT_SH_LEN + 1

FieldRuleSH(value_length) == value_length <= DIGIMESH_AT_SH_LEN

\* the switch of value_is_valid
FieldRule(f, v, value_length, big_value) ==
    CASE f = DIGIMESH_AT_ID -> ~(value_length > 2)
      [] f = DIGIMESH_AT_CH ->
            ~(value_length > 1) /\ (At(v, 0) <= 26 /\ At(v, 0) >= 11)
      [] f = DIGIMESH_AT_NI -> FieldRuleNI(v, value_length)
      [] f = DIGIMESH_AT_SM ->
            IF value_length > DIGIMESH_AT_SM_LEN THEN FALSE
            ELSE LessEq32(big_value, 8) /\ GreaterEq32(big_value, 0)
      [] f = DIGIMESH_AT_SN ->
            IF value_length > DIGIMESH_AT_SN_LEN THEN FALSE
            ELSE LessEq32(big_value, 65535) /\ GreaterEq32(big_value, 1)
      [] f = DIGIMESH_AT_SO ->
            IF value_length > DIGIMESH_AT_SO_LEN THEN FALSE
            ELSE LessEq32(big_value, 318) /\ GreaterEq32(big_value, 0)
      [] f = DIGIMESH_AT_ST ->
            IF value_length > DIGIMESH_AT_ST_LEN THEN FALSE
            ELSE LessEq32(big_value, 3600000) /\ GreaterEq32(big_value, 1)
      [] f = DIGIMESH_AT_SP -> LessEq32(big_value, 318) /\ GreaterEq32(big_value, 0)
      [] f = DIGIMESH_AT_WH -> LessEq32(big_value, 318) /\ GreaterEq32(big_value, 0)
      [] f = DIGIMESH_AT_SH -> FieldRuleSH(value_length)
      [] f = DIGIMESH_AT_SL -> value_length <= DIGIMESH_AT_SL_LEN
      [] OTHER -> FALSE

\* the results the call can return
\* variant: value_is_valid without the test against DIGIMESH_MAXIMUM_FRAME_SIZE
value_is_valid_without_size_cap(f, v, value_length) ==
    IF value_length = 0 THEN {TRUE}
    ELSE {FieldRule(f, v, value_length, big_value) :
            big_value \in convert_little_endian_array_to_32bit(v, value_length)}

value_is_valid(f, v, value_length) ==
    IF value_length = 0 THEN {TRUE}
    ELSE IF value_length > DIGIMESH_MAXIMUM_FRAME_SIZE THEN {FALSE}
    ELSE {FieldRule(f, v, value_length, big_value) :
            big_value \in convert_little_endian_array_to_32bit(v, value_length)}

\* the checksum the call stores in frame->checksum
\* variant: calculate_crc_at_command leaving frame_id out of the sum
calculate_crc_at_command_skips_frame_id(frame) ==
    LET sum == U8(frame.frame_type
                    + frame.at_command[1] + frame.at_command[2]
                    + SumRange(frame.value, 1, frame.value_length))
    IN  U8(255 - sum)

calculate_crc_at_command(frame) ==
    LET sum == U8(frame.frame_type + frame.frame_id
                    + frame.at_command[1] + frame.at_command[2]
                    + SumRange(frame.value, 1, frame.value_length))
    IN  U8(255 - sum)

calculate_crc_transmit_request(frame) ==
    LET sum == U8(frame.frame_type + frame.frame_id
                    + SumRange(frame.address, 1, DIGIMESH_SERIAL_NUMBER_LENGTH)
                    + frame.reserved[1] + frame.reserved[2]
                    + frame.broadcast_radius + frame.transmit_options
                    + SumRange(frame.payload_data, 1, frame.payload_length))
    IN  U8(255 - sum)

\* bytes[0 .. Len(src)-1] = src; a write past the end of bytes lands in the
\* memory behind it
WriteBytes(bytes, src) ==
    [i \in 1..Max(Len(bytes), Len(src)) |->
        IF i <= Len(src) THEN src[i] ELSE bytes[i]]

\* the bytes the call writes at bytes[0 ..]
\* variant: generate_byte_array_from_frame_at_command writing LENGTH low byte first
generate_byte_array_from_frame_at_command_lsb_first(frame) ==
    <<frame.start_delimiter, U8(frame.length), (frame.length \div 256) % 256,
      frame.frame_type, frame.frame_id>>
        \o frame.at_command
        \o SubSeq(frame.value, 1, frame.value_length)
        \o <<frame.checksum>>

generate_byte_array_from_frame_at_command(frame) ==
    <<frame.start_delimiter, (frame.length \div 256) % 256, U8(frame.length),
      frame.frame_type, frame.frame_id>>
        \o frame.at_command
        \o SubSeq(frame.value, 1, frame.value_length)
        \o <<frame.checksum>>

\* variant: generate_byte_array_from_frame_transmit_request writing the
\* reserved bytes before the address
generate_byte_array_from_frame_transmit_request_reserved_first(frame) ==
    <<frame.start_delimiter, (frame.length \div 256) % 256, U8(frame.length),
      frame.frame_type, frame.frame_id>>
        \o frame.reserved
        \o frame.address
        \o <<frame.broadcast_radius, frame.transmit_options>>
        \o SubSeq(frame.payload_data, 1, frame.payload_length)
        \o <<frame.checksum>>

generate_byte_array_from_frame_transmit_request(frame) ==
    <<frame.start_delimiter, (frame.length \div 256) % 256, U8(frame.length),
      frame.frame_type, frame.frame_id>>
        \o frame.address
        \o frame.reserved
        \o <<frame.broadcast_radius, frame.transmit_options>>
        \o SubSeq(frame.payload_data, 1, frame.payload_length)
        \o <<frame.checksum>>

\* the frame that digimesh_generate_at_command_frame builds, checksum set
AtCommandFrame(f, v, value_length) ==
    LET frame == [start_delimiter |-> 126,
                  length |-> U16(1 + 1 + 2 + value_length),
                  frame_type |-> DIGIMESH_FRAME_TYPE_LOCAL_AT,
                  frame_id |-> 1,
                  at_command |-> digi_at_command_strings[f + 1],
                  value_length |-> value_length,
                  value |-> SubSeq(v, 1, value_length),
                  checksum |-> 0]
    IN  [frame EXCEPT !.checksum = calculate_crc_at_command(frame)]

\* the outcomes of the call: the status returned, message after the call,
\* the number of bytes written and what the validator answered
\* variant: digimesh_generate_at_command_frame encoding whatever the validator says
digimesh_generate_at_command_frame_unchecked(f, v, value_length, msg) ==
    {LET bytes == generate_byte_array_from_frame_at_command(
                        AtCommandFrame(f, v, value_length))
     IN  [status |-> DIGIMESH_OK, message |-> WriteBytes(msg, bytes),
          written |-> Len(bytes), valid |-> ok]
     : ok \in value_is_valid(f, v, value_length)}

digimesh_generate_at_command_frame(f, v, value_length, msg) ==
    {IF ~ok
     THEN [status |-> DIGIMESH_ERROR, message |-> msg, written |-> 0,
           valid |-> ok]
     ELSE LET bytes == generate_byte_array_from_frame_at_command(
                            AtCommandFrame(f, v, value_length))
          IN  [status |-> DIGIMESH_OK, message |-> WriteBytes(msg, bytes),
               written |-> Len(bytes), valid |-> ok]
     : ok \in value_is_valid(f, v, value_length)}

\* the frame that digimesh_generate_transmit_request_frame builds, checksum set
TransmitRequestFrame(dest, pl, payload_length) ==
    LET frame == [start_delimiter |-> 126,
                  length |-> U16(1 + 1 + 8 + 2 + 1 + 1 + payload_length),
                  frame_type |-> DIGIMESH_FRAME_TYPE_TRANSMIT_REQUEST,
                  frame_id |-> 1,
                  address |-> SubSeq(dest, 1, DIGIMESH_SERIAL_NUMBER_LENGTH),
                  reserved |-> <<255, 254>>,
                  broadcast_radius |-> 0,
                  transmit_options |-> 192,
                  payload_data |-> SubSeq(pl, 1, payload_length),
                  payload_length |-> payload_length,
                  checksum |-> 0]
    IN  [frame EXCEPT !.checksum = calculate_crc_transmit_request(frame)]

\* variant: digimesh_generate_transmit_request_frame refusing a payload of
\* DIGIMESH_MAX_PAYLOAD_SIZE bytes
digimesh_generate_transmit_request_frame_cap_exclusive(dest, pl, payload_length, generated_frame) ==
    IF payload_length >= DIGIMESH_MAX_PAYLOAD_SIZE
    THEN [status |-> DIGIMESH_ERROR, message |-> generated_frame, written |-> 0]
    ELSE LET bytes == generate_byte_array_from_frame_transmit_request(
                           TransmitRequestFrame(dest, pl, payload_length))
         IN  [status |-> DIGIMESH_OK,
              message |-> WriteBytes(generated_frame, bytes),
              written |-> Len(bytes)]

digimesh_generate_transmit_request_frame(dest, pl, payload_length, generated_frame) ==
    IF payload_length > DIGIMESH_MAX_PAYLOAD_SIZE
    THEN [status |-> DIGIMESH_ERROR, message |-> generated_frame, written |-> 0]
    ELSE LET bytes == generate_byte_array_from_frame_transmit_request(
                           TransmitRequestFrame(dest, pl, payload_length))
         IN  [status |-> DIGIMESH_OK,
              message |-> WriteBytes(generated_frame, bytes),
              written |-> Len(bytes)]

\* variant: digimesh_get_frame_size without the four bytes around TYPE..BODY
digimesh_get_frame_size_without_overhead(frame) ==
    U8(BitOr(At(frame, 1) * 256, At(frame, 2)))

digimesh_get_frame_size(frame) ==
    U8(BitOr(At(frame, 1) * 256, At(frame, 2)) + 4)

(***************************************************************************)
(* Inputs of the validator and the encoders                                *)
(***************************************************************************)
Fields == DIGIMESH_AT_ID..DIGIMESH_AT_WR

ValueBytes == {0, 1, 8, 9, 10, 11, 26, 27, 62, 63, 127, 128, 255}

Fill(n, b) == [i \in 1..n |-> b]

\* values at the ends of the ranges of the wider fields, the name of
\* TEST(Test, check_set_name_frame), and values of four and five bytes
BoundaryValues ==
    {<<128, 238, 54>>, <<129, 238, 54>>, <<0, 0, 0>>, <<1, 0, 0>>,
     <<62, 1, 0>>, <<63, 1, 0>>, <<255, 255, 255>>, <<0, 0, 1>>,
     <<99, 114, 117, 109, 98>>, <<1, 0, 0, 0>>, <<0, 0, 0, 128>>,
     <<62, 1, 0, 0, 255>>, <<0, 0, 0, 0, 1>>}

LongValueLens ==
    {20, 21, DIGIMESH_MAXIMUM_FRAME_SIZE - 8, DIGIMESH_MAXIMUM_FRAME_SIZE - 7,
     DIGIMESH_MAXIMUM_FRAME_SIZE, DIGIMESH_MAXIMUM_FRAME_SIZE + 1, 255}

LongValues == {Fill(n, b) : n \in LongValueLens, b \in {0, 65, 128}}

Values == SeqsOver(ValueBytes, MaxValueLen) \cup BoundaryValues \cup LongValues

\* the frame arrays of the tests are DIGIMESH_MAXIMUM_FRAME_SIZE bytes,
\* zeroed; a caller may also pass an array that holds an earlier frame
Messages ==
    {Fill(DIGIMESH_MAXIMUM_FRAME_SIZE, 0), Fill(DIGIMESH_MAXIMUM_FRAME_SIZE, 170)}

Destinations ==
    {Fill(DIGIMESH_SERIAL_NUMBER_LENGTH, 0), Fill(DIGIMESH_SERIAL_NUMBER_LENGTH, 255),
     <<0, 19, 162, 0, 65, 126, 1, 2>>}

\* 'b','i','g',' ','s','l','u','g'
TestPayload == <<98, 105, 103, 32, 115, 108, 117, 103>>

PayloadBytes == {0, 126, 255}

LongPayloadLens ==
    {DIGIMESH_MAX_PAYLOAD_SIZE - 1, DIGIMESH_MAX_PAYLOAD_SIZE,
     DIGIMESH_MAX_PAYLOAD_SIZE + 1, 255}

Payloads ==
    SeqsOver(PayloadBytes, MaxPayload) \cup {TestPayload}
        \cup {Fill(n, b) : n \in LongPayloadLens, b \in {0, 255}}

(***************************************************************************)
(* The parts of the state that a specification leaves alone                *)
(***************************************************************************)
ParserIdle ==
    /\ input = << >>
    /\ input_head = 0
    /\ input_tail = 0
    /\ output = << >>
    /\ output_head = 0
    /\ new_frame = << >>
    /\ span = << >>
    /\ emitted = << >>
    /\ consumed = 0
    /\ max_idx = -1
    /\ log = << >>
    /\ stream = << >>
    /\ ops = << >>

EncoderIdle ==
    /\ field = DIGIMESH_AT_END
    /\ value = << >>
    /\ destination = << >>
    /\ payload = << >>
    /\ message = << >>
    /\ message_in = << >>
    /\ written = 0
    /\ valid = FALSE

InspectorIdle ==
    /\ rx_frame = << >>
    /\ beyond = 0
    /\ result = 0
    /\ copied = << >>

\* static digi_t digi = {0}
RegistryIdle ==
    /\ digi_serial = Zeros(DIGIMESH_SERIAL_NUMBER_LENGTH)
    /\ serial_out = << >>
    /\ initialized = FALSE
    /\ reg_ops = << >>

(***************************************************************************)
(* Initial state and operations                                            *)
(***************************************************************************)
Init ==
    /\ input \in Inputs
    /\ input_head = Len(input)
    /\ input_tail = 0
    /\ output = << >>
    /\ output_head = 0
    /\ new_frame = << >>
    /\ status = "none"
    /\ pc = "run"
    /\ op = "init"
    /\ span = << >>
    /\ emitted = << >>
    /\ consumed = 0
    /\ max_idx = -1
    /\ log = << >>
    /\ stream = input
    /\ ops = << >>
    /\ field = DIGIMESH_AT_END
    /\ value = << >>
    /\ destination = << >>
    /\ payload = << >>
    /\ message = << >>
    /\ message_in = << >>
    /\ written = 0
    /\ valid = FALSE
    /\ InspectorIdle
    /\ RegistryIdle

CanCall == pc = "run" /\ Len(ops) - Count(ops, "append") < MaxCalls

\* a call of digimesh_parse_bytes that returns
ParseBytes ==
    /\ CanCall
    /\ LET r == digimesh_parse_bytes(input, input_head, input_tail, output, output_head)
       IN  /\ input' = r.input
           /\ input_head' = r.input_head
           /\ input_tail' = r.input_tail
           /\ output' = r.output
           /\ output_head' = r.output_head
           /\ status' = r.status
           /\ emitted' = r.emitted
           /\ consumed' = r.consumed
           /\ max_idx' = r.max_idx
           /\ log' = log \o r.emitted
    /\ op' = "parse"
    /\ span' = SubSeq(input, 1, input_head)
    /\ ops' = Append(ops, "parse")
    /\ UNCHANGED <<new_frame, pc, stream>>
    /\ UNCHANGED <<encVars, insVars, regVars>>

\* a call of digimesh_parse_bytes that writes past new_frame[MAX_FRAME_SIZE - 1]
\* and is stopped there (stack protector, fault)
ParseBytesFault ==
    /\ CanCall
    /\ LET r == digimesh_parse_bytes(input, input_head, input_tail, output, output_head)
       IN  /\ r.max_idx >= MAX_FRAME_SIZE
           /\ max_idx' = r.max_idx
    /\ pc' = "crashed"
    /\ op' = "parse"
    /\ span' = SubSeq(input, 1, input_head)
    /\ ops' = Append(ops, "parse")
    /\ UNCHANGED <<input, input_head, input_tail, output, output_head, new_frame,
                   status, emitted, consumed, log, stream>>
    /\ UNCHANGED <<encVars, insVars, regVars>>

\* a call of digimesh_extract_first_digimesh_packet that returns
ExtractFirst ==
    /\ CanCall
    /\ LET r == digimesh_extract_first_digimesh_packet(input, input_head, input_tail, new_frame)
       IN  /\ input' = r.input
           /\ input_head' = r.head
           /\ input_tail' = r.tail
           /\ new_frame' = r.new_frame
           /\ status' = r.status
           /\ emitted' = r.emitted
           /\ consumed' = r.consumed
           /\ max_idx' = r.max_idx
           /\ log' = log \o r.emitted
    /\ op' = "extract"
    /\ span' = SubSeq(input, 1, input_head)
    /\ ops' = Append(ops, "extract")
    /\ UNCHANGED <<output, output_head, pc, stream>>
    /\ UNCHANGED <<encVars, insVars, regVars>>

\* a call of the extractor that writes past the caller's MAX_FRAME_SIZE array
\* and is stopped there
ExtractFirstFault ==
    /\ CanCall
    /\ LET r == digimesh_extract_first_digimesh_packet(input, input_head, input_tail, new_frame)
       IN  /\ r.max_idx >= MAX_FRAME_SIZE
           /\ max_idx' = r.max_idx
    /\ pc' = "crashed"
    /\ op' = "extract"
    /\ span' = SubSeq(input, 1, input_head)
    /\ ops' = Append(ops, "extract")
    /\ UNCHANGED <<input, input_head, input_tail, output, output_head, new_frame,
                   status, emitted, consumed, log, stream>>
    /\ UNCHANGED <<encVars, insVars, regVars>>

\* the caller appends received bytes at input_head
AppendBytes ==
    /\ pc = "run"
    /\ op \in {"parse", "extract"}
    /\ Count(ops, "append") < MaxAppends
    /\ \E chunk \in Chunks(stream) :
          /\ input' = SubSeq(input, 1, input_head) \o chunk
                        \o SubSeq(input, input_head + Len(chunk) + 1, Len(input))
          /\ input_head' = input_head + Len(chunk)
          /\ stream' = stream \o chunk
    /\ op' = "append"
    /\ ops' = Append(ops, "append")
    /\ UNCHANGED <<input_tail, output, output_head, new_frame, status, pc, span,
                   emitted, consumed, max_idx, log>>
    /\ UNCHANGED <<encVars, insVars, regVars>>

Next ==
    \/ ParseBytes
    \/ ParseBytesFault
    \/ ExtractFirst
    \/ ExtractFirstFault
    \/ AppendBytes

Spec == Init /\ [][Next]_vars

TypeOK ==
    /\ input_head <= Len(input)
    /\ input_tail = 0
    /\ pc \in {"run", "crashed"}

(***************************************************************************)
(* Operations of the validator and the encoders                            *)
(***************************************************************************)
EncInit ==
    /\ input = << >>
    /\ input_head = 0
    /\ input_tail = 0
    /\ output = << >>
    /\ output_head = 0
    /\ new_frame = << >>
    /\ status = "none"
    /\ pc = "run"
    /\ op = "init"
    /\ span = << >>
    /\ emitted = << >>
    /\ consumed = 0
    /\ max_idx = -1
    /\ log = << >>
    /\ stream = << >>
    /\ ops = << >>
    /\ \/ /\ field \in Fields
          /\ value \in Values
          /\ destination = << >>
          /\ payload = << >>
       \/ /\ field = DIGIMESH_AT_END
          /\ value = << >>
          /\ destination \in Destinations
          /\ payload \in Payloads
    /\ message \in Messages
    /\ message_in = message
    /\ written = 0
    /\ valid = FALSE
    /\ InspectorIdle
    /\ RegistryIdle

\* the caller has a field and a value and has made no call yet
CanCallWithField == pc = "run" /\ op = "init" /\ field # DIGIMESH_AT_END

\* a call of value_is_valid
ValueIsValid ==
    /\ CanCallWithField
    /\ valid' \in value_is_valid(field, value, Len(value))
    /\ op' = "value_is_valid"
    /\ UNCHANGED <<status, pc, field, value, destination, payload, message,
                   message_in, written>>
    /\ UNCHANGED <<parseVars, insVars, regVars>>

\* a call of digimesh_generate_at_command_frame that returns
GenerateAtCommandFrame ==
    /\ CanCallWithField
    /\ \E r \in digimesh_generate_at_command_frame(field, value, Len(value), message) :
          /\ message' = r.message
          /\ status' = r.status
          /\ written' = r.written
          /\ valid' = r.valid
    /\ op' = "at_command"
    /\ UNCHANGED <<pc, field, value, destination, payload, message_in>>
    /\ UNCHANGED <<parseVars, insVars, regVars>>

\* a call of digimesh_generate_transmit_request_frame
GenerateTransmitRequestFrame ==
    /\ pc = "run"
    /\ op = "init"
    /\ field = DIGIMESH_AT_END
    /\ LET r == digimesh_generate_transmit_request_frame(destination, payload,
                                                         Len(payload), message)
       IN  /\ message' = r.message
           /\ status' = r.status
           /\ written' = r.written
    /\ op' = "transmit_request"
    /\ UNCHANGED <<pc, field, value, destination, payload, message_in, valid>>
    /\ UNCHANGED <<parseVars, insVars, regVars>>

EncNext ==
    \/ ValueIsValid
    \/ GenerateAtCommandFrame
    \/ GenerateTransmitRequestFrame

EncSpec == EncInit /\ [][EncNext]_vars

(***************************************************************************)
(* Frame inspectors.  An inspector is given a pointer to the caller's      *)
(* array; a read at or behind the end of the array finds the byte beyond.  *)
(***************************************************************************)
DIGIMESH_FRAME_TYPE_LOCAL_AT_COMMAND_RESPONSE == 136

DIGIMESH_FRAME_TYPE_RECEIVE_PACKET == 144

\* frame[i] where the array holds Len(frame) bytes
ReadAt(frame, i, behind) == IF i < Len(frame) THEN frame[i + 1] ELSE behind

\* memcpy(dst, frame + from, n): the n bytes copied
CopyOut(frame, from, n, behind) ==
    [i \in 1..n |-> ReadAt(frame, from + i - 1, behind)]

digimesh_get_local_at_response_size(frame) ==
    U8(BitOr(At(frame, 1) * 256, At(frame, 2)) - 5)

digimesh_get_frame_type(frame) == At(frame, 3)

\* payload is the bytes memcpy writes at payload[0 ..]
digimesh_extract_payload_from_receive_frame(frame, behind) ==
    LET frame_len == digimesh_get_frame_size(frame)
        payload_len == U8(frame_len - 16)
    IN  [payload |-> CopyOut(frame, 15, payload_len, behind),
         result  |-> payload_len,
         extent  |-> IF payload_len = 0 THEN 3 ELSE 15 + payload_len]

digimesh_get_command_from_at_response(frame, behind) ==
    LET at_command == <<ReadAt(frame, 5, behind), ReadAt(frame, 6, behind)>>
        found == {i \in 0..(DIGIMESH_AT_END - 1) :
                     /\ digi_at_command_strings[i + 1][1] = at_command[1]
                     /\ digi_at_command_strings[i + 1][2] = at_command[2]}
    IN  IF found = {} THEN DIGIMESH_AT_END
        ELSE CHOOSE i \in found : \A j \in found : i <= j

digimesh_get_status_from_at_response(frame, behind) == ReadAt(frame, 7, behind)

\* value is the bytes memcpy writes at value[0 ..]
digimesh_get_at_command_response_value(frame, behind) ==
    LET response_size == digimesh_get_local_at_response_size(frame)
    IN  [value  |-> CopyOut(frame, 8, response_size, behind),
         result |-> response_size,
         status |-> DIGIMESH_OK,
         extent |-> IF response_size = 0 THEN 3 ELSE 8 + response_size]

(***************************************************************************)
(* Inputs of the inspectors                                                *)
(***************************************************************************)
\* a receive packet: TYPE 0x90, 8 address bytes, 0xFF 0xFE, options, payload
ReceiveFrame(pl) ==
    MkFrame(<<DIGIMESH_FRAME_TYPE_RECEIVE_PACKET>> \o Fill(8, 255)
               \o <<255, 254, 1>> \o pl)

\* frame of TEST(Test, extract_payload_from_receive_packet)
TestFrameExtract == ReceiveFrame(<<97, 98, 99, 100, 101, 102>>)

\* payload lengths around the frame sizes 255 and 256 and the payload
\* sizes 255 and 256
ReceivePayloadLens == {0, 1, 239, 240, 255, 256}

ReceiveFrames ==
    {ReceiveFrame(Fill(n, b)) : n \in ReceivePayloadLens, b \in {0, 97}}
        \cup {TestFrameExtract, TestFrameReceive, TestFrameReceive2}

\* a local AT command response: TYPE 0x88, FRAME_ID, name, status, value
AtResponseFrame(name, st, v) ==
    MkFrame(<<DIGIMESH_FRAME_TYPE_LOCAL_AT_COMMAND_RESPONSE, 1>> \o name
               \o <<st>> \o v)

\* the rows of the table, 'W','R', and pairs that match no row or half a row
ResponseNames ==
    {digi_at_command_strings[i] : i \in 1..DIGIMESH_AT_END}
        \cup {<<87, 82>>, <<88, 88>>, <<78, 72>>, <<73, 73>>}

ResponseValueLens == {1, 4, 250, 255, 256}

AtResponseFrames ==
    {AtResponseFrame(n, 0, << >>) : n \in ResponseNames}
        \cup {AtResponseFrame(<<83, 72>>, st, Fill(k, 65)) :
                 st \in {0, 1}, k \in ResponseValueLens}
        \cup {TestFrameNI, TestFrameCH}

\* frames with a valid checksum that end before the offsets the inspectors
\* read: a receive packet of TYPE alone, a response without its status
ShortFrames ==
    {MkFrame(<<DIGIMESH_FRAME_TYPE_RECEIVE_PACKET>>),
     MkFrame(<<DIGIMESH_FRAME_TYPE_RECEIVE_PACKET>> \o Fill(8, 255)),
     MkFrame(<<DIGIMESH_FRAME_TYPE_LOCAL_AT_COMMAND_RESPONSE>>),
     MkFrame(<<DIGIMESH_FRAME_TYPE_LOCAL_AT_COMMAND_RESPONSE, 1, 78, 73>>)}

Frames == ReceiveFrames \cup AtResponseFrames \cup ShortFrames

BeyondBytes == {0, 170}

(***************************************************************************)
(* Operations of the inspectors                                            *)
(***************************************************************************)
InsInit ==
    /\ ParserIdle
    /\ EncoderIdle
    /\ RegistryIdle
    /\ status = "none"
    /\ pc = "run"
    /\ op = "init"
    /\ rx_frame \in Frames
    /\ beyond \in BeyondBytes
    /\ result = 0
    /\ copied = << >>

CanInspect == pc = "run" /\ op = "init" /\ rx_frame # << >>

\* the call returns n and copies nothing
Inspected(o, n) ==
    /\ op' = o
    /\ result' = n
    /\ UNCHANGED <<status, pc, rx_frame, beyond, copied>>
    /\ UNCHANGED <<parseVars, encVars, regVars>>

GetFrameSize ==
    /\ CanInspect
    /\ Inspected("get_frame_size", digimesh_get_frame_size(rx_frame))

GetLocalAtResponseSize ==
    /\ CanInspect
    /\ Inspected("get_local_at_response_size",
                 digimesh_get_local_at_response_size(rx_frame))

GetFrameType ==
    /\ CanInspect
    /\ Inspected("get_frame_type", digimesh_get_frame_type(rx_frame))

GetCommandFromAtResponse ==
    /\ CanInspect
    /\ Inspected("get_command_from_at_response",
                 digimesh_get_command_from_at_response(rx_frame, beyond))

GetStatusFromAtResponse ==
    /\ CanInspect
    /\ Inspected("get_status_from_at_response",
                 digimesh_get_status_from_at_response(rx_frame, beyond))

ExtractPayloadFromReceiveFrame ==
    /\ CanInspect
    /\ LET r == digimesh_extract_payload_from_receive_frame(rx_frame, beyond)
       IN  /\ copied' = r.payload
           /\ result' = r.result
    /\ op' = "extract_payload_from_receive_frame"
    /\ UNCHANGED <<status, pc, rx_frame, beyond>>
    /\ UNCHANGED <<parseVars, encVars, regVars>>

GetAtCommandResponseValue ==
    /\ CanInspect
    /\ LET r == digimesh_get_at_command_response_value(rx_frame, beyond)
       IN  /\ copied' = r.value
           /\ result' = r.result
           /\ status' = r.status
    /\ op' = "get_at_command_response_value"
    /\ UNCHANGED <<pc, rx_frame, beyond>>
    /\ UNCHANGED <<parseVars, encVars, regVars>>

\* a copy that reads behind the end of the caller's array and is stopped
InspectorFault ==
    /\ CanInspect
    /\ \/ /\ digimesh_extract_payload_from_receive_frame(rx_frame, beyond).extent
                > Len(rx_frame)
          /\ op' = "extract_payload_from_receive_frame"
       \/ /\ digimesh_get_at_command_response_value(rx_frame, beyond).extent
                > Len(rx_frame)
          /\ op' = "get_at_command_response_value"
    /\ pc' = "crashed"
    /\ UNCHANGED <<status, rx_frame, beyond, result, copied>>
    /\ UNCHANGED <<parseVars, encVars, regVars>>

InsNext ==
    \/ GetFrameSize
    \/ GetLocalAtResponseSize
    \/ GetFrameType
    \/ GetCommandFromAtResponse
    \/ GetStatusFromAtResponse
    \/ ExtractPayloadFromReceiveFrame
    \/ GetAtCommandResponseValue
    \/ InspectorFault

InsSpec == InsInit /\ [][InsNext]_vars

(***************************************************************************)
(* Address registry: one slot, digi.serial, kept for the process lifetime  *)
(***************************************************************************)
EMPTY_SERIAL == 255

\* memset(digi.serial, EMPTY_SERIAL, DIGIMESH_SERIAL_NUMBER_LENGTH)
digi_init == [i \in 1..DIGIMESH_SERIAL_NUMBER_LENGTH |-> EMPTY_SERIAL]

\* variant: digi_is_initialized looking at the first byte only
digi_is_initialized_first_byte(serial) == At(serial, 0) # EMPTY_SERIAL

digi_is_initialized(serial) ==
    \E idx \in 0..(DIGIMESH_SERIAL_NUMBER_LENGTH - 1) :
        At(serial, idx) # EMPTY_SERIAL

\* memcpy(serial->serial, digi.serial, DIGIMESH_SERIAL_NUMBER_LENGTH)
digi_get_serial(serial) == SubSeq(serial, 1, DIGIMESH_SERIAL_NUMBER_LENGTH)

\* memcpy(digi.serial, serial->serial, DIGIMESH_SERIAL_NUMBER_LENGTH)
digi_register(serial) == SubSeq(serial, 1, DIGIMESH_SERIAL_NUMBER_LENGTH)

\* id of TEST_GROUP(Test)
TestSerial == <<1, 2, 3, 4, 5, 6, 7, 8>>

\* the test's serial, the empty serial, and serials with one byte that is
\* not empty
Serials ==
    {TestSerial, Fill(DIGIMESH_SERIAL_NUMBER_LENGTH, EMPTY_SERIAL),
     Fill(DIGIMESH_SERIAL_NUMBER_LENGTH - 1, EMPTY_SERIAL) \o <<0>>,
     <<254>> \o Fill(DIGIMESH_SERIAL_NUMBER_LENGTH - 1, EMPTY_SERIAL)}

RegInit ==
    /\ ParserIdle
    /\ EncoderIdle
    /\ InspectorIdle
    /\ RegistryIdle
    /\ status = "none"
    /\ pc = "run"
    /\ op = "init"

CanCallRegistry == pc = "run" /\ Len(reg_ops) < MaxRegCalls

DigiInit ==
    /\ CanCallRegistry
    /\ digi_serial' = digi_init
    /\ op' = "digi_init"
    /\ reg_ops' = Append(reg_ops, [op |-> "digi_init", serial |-> << >>])
    /\ UNCHANGED <<status, pc, serial_out, initialized>>
    /\ UNCHANGED <<parseVars, encVars, insVars>>

DigiIsInitialized ==
    /\ CanCallRegistry
    /\ initialized' = digi_is_initialized(digi_serial)
    /\ op' = "digi_is_initialized"
    /\ reg_ops' = Append(reg_ops,
                         [op |-> "digi_is_initialized", serial |-> << >>])
    /\ UNCHANGED <<status, pc, digi_serial, serial_out>>
    /\ UNCHANGED <<parseVars, encVars, insVars>>

DigiGetSerial ==
    /\ CanCallRegistry
    /\ serial_out' = digi_get_serial(digi_serial)
    /\ status' = DIGIMESH_OK
    /\ op' = "digi_get_serial"
    /\ reg_ops' = Append(reg_ops, [op |-> "digi_get_serial", serial |-> << >>])
    /\ UNCHANGED <<pc, digi_serial, initialized>>
    /\ UNCHANGED <<parseVars, encVars, insVars>>

DigiRegister ==
    /\ CanCallRegistry
    /\ \E serial \in Serials :
          /\ digi_serial' = digi_register(serial)
          /\ reg_ops' = Append(reg_ops,
                               [op |-> "digi_register", serial |-> serial])
    /\ status' = DIGIMESH_OK
    /\ op' = "digi_register"
    /\ UNCHANGED <<pc, serial_out, initialized>>
    /\ UNCHANGED <<parseVars, encVars, insVars>>

RegNext ==
    \/ DigiInit
    \/ DigiIsInitialized
    \/ DigiGetSerial
    \/ DigiRegister

RegSpec == RegInit /\ [][RegNext]_vars

(***************************************************************************)
(* Vocabulary of the properties                                            *)
(***************************************************************************)
Returned(o) == pc = "run" /\ op = o

\* f is a frame of the wire format: delimiter, 16-bit big-endian length of
\* TYPE..BODY, and the checksum of TYPE..BODY as its last byte
IsWireFrame(f) ==
    /\ Len(f) >= 4
    /\ f[1] = START_DELIMITER
    /\ 256 * f[2] + f[3] = Len(f) - 4
    /\ f[Len(f)] = WireChecksum(SubSeq(f, 4, Len(f) - 1))

\* f starts with the delimiter and ends with the checksum of bytes 3..end-1
HasValidChecksum(f) ==
    /\ Len(f) >= 4
    /\ f[1] = START_DELIMITER
    /\ f[Len(f)] = WireChecksum(SubSeq(f, 4, Len(f) - 1))

NoInnerDelimiter(f) == \A i \in 2..Len(f) : f[i] # START_DELIMITER

IsPrefix(p, s) == Len(p) <= Len(s) /\ SubSeq(s, 1, Len(p)) = p

AllFrames == SmallFrames \cup LongFrames

\* C1: every frame that the parser or the extractor emits starts with 0x7E
\* and ends with 0xFF minus the sum of its bytes TYPE..BODY mod 256.
C1_EmittedFramesValid ==
    (Returned("parse") \/ Returned("extract"))
        => \A i \in 1..Len(emitted) : HasValidChecksum(emitted[i])

\* C6: no call writes a staged byte at or beyond index 128 of the staging
\* array, and no candidate that does not fit in it is emitted.
C6_StagingWithinCapacity ==
    /\ max_idx < MAX_FRAME_SIZE
    /\ \A i \in 1..Len(emitted) : Len(emitted[i]) <= MAX_FRAME_SIZE

\* the positions of span at which a complete frame of the wire format starts
FramePositions(s) ==
    {p \in 1..Len(s) :
        /\ s[p] = START_DELIMITER
        /\ p + 2 <= Len(s)
        /\ p + 256 * s[p + 1] + s[p + 2] + 3 <= Len(s)
        /\ IsWireFrame(SubSeq(s, p, p + 256 * s[p + 1] + s[p + 2] + 3))}

FrameAt(s, p) == SubSeq(s, p, p + 256 * s[p + 1] + s[p + 2] + 3)

Minimum(S) == CHOOSE x \in S : \A y \in S : x <= y

FirstCall(o) == Returned(o) /\ ops = <<o>>

\* the garbage of TEST(Test, parse_digimesh_local_at_response)
TestGarbage == {<<1, 0, 3, 153, 16>>, <<153, 35, 0, 255>>}

AnyGarbage == Garbage \cup TestGarbage

SomeGarbage == AnyGarbage \ {<< >>}

PlainFrames == {f \in SmallFrames : NoInnerDelimiter(f)}

FittingFrames == {f \in AllFrames : NoInnerDelimiter(f) /\ Len(f) <= MAX_FRAME_SIZE}

FittingAlteredFrames ==
    UNION {Altered(f) : f \in SmallFrames}
        \cup {WithChecksum(f, 0) : f \in {g \in LongFrames : Len(g) <= MAX_FRAME_SIZE}}

\* C2: digimesh_parse_bytes emits every complete frame of the span whose
\* trailing byte is the checksum of its TYPE..BODY bytes, and nothing else.
C2_EmitsEveryValidFrame ==
    Returned("parse") =>
        /\ \A p \in FramePositions(span) :
              \E i \in 1..Len(emitted) : emitted[i] = FrameAt(span, p)
        /\ \A i \in 1..Len(emitted) :
              \E p \in FramePositions(span) : emitted[i] = FrameAt(span, p)

\* C3: on garbage + frame A + garbage + frame B one call emits exactly A then
\* B, the output holds A followed by B, output_head is size(A) + size(B) and
\* the whole input is consumed.
C3_ResyncOrdering ==
    FirstCall("parse") =>
        \A g1 \in SomeGarbage, a \in PlainFrames, g2 \in SomeGarbage, b \in PlainFrames :
            (a # b /\ span = g1 \o a \o g2 \o b) =>
                /\ emitted = <<a, b>>
                /\ IsPrefix(a \o b, output)
                /\ output_head = Len(a) + Len(b)
                /\ consumed = Len(span)
                /\ input_head = 0

\* what C4 says of the frame f found in the span
ExactlyEmitted(f) ==
    /\ emitted = <<f>>
    /\ IsPrefix(f, output)
    /\ output_head = Len(f)
    /\ input_head = input_tail

\* C4 as stated: any one valid frame between delimiter-free garbage is the
\* one frame emitted, and no unconsumed byte remains.
C4_OneFrameAmongGarbage_Stated ==
    FirstCall("parse") =>
        \A g1 \in SomeGarbage, f \in SmallFrames, g2 \in SomeGarbage :
            span = g1 \o f \o g2 => ExactlyEmitted(f)

\* C4 (amended): one valid frame of at most 128 bytes that has no 0x7E after
\* its start delimiter, between delimiter-free garbage, is the one frame
\* emitted: output[0..size) is the frame, output_head is its size and
\* input_head equals input_tail after the call.
C4_OneFrameAmongGarbage ==
    FirstCall("parse") =>
        \A g1 \in AnyGarbage, f \in FittingFrames, g2 \in AnyGarbage :
            span = g1 \o f \o g2 => ExactlyEmitted(f)

C4_Witness ==
    /\ FirstCall("parse")
    /\ span = TestInputLocalAt
    /\ emitted = <<TestFrameNI>>
    /\ output_head = 9
    /\ input_head = 0

C7_Resumable ==
    (pc = "run" /\ ops = <<"parse", "append", "parse">>) =>
        log = digimesh_parse_bytes(stream, Len(stream), 0, << >>, 0).emitted

\* C8: after a call of digimesh_parse_bytes input_tail is 0, input_head is
\* the number of bytes between the consumed boundary and the old input_head,
\* and input[0..input_head) holds exactly those bytes in order; the input of
\* the receive-packet test leaves input_head = 2.
C8_Compaction ==
    Returned("parse") =>
        /\ input_tail = 0
        /\ consumed <= Len(span)
        /\ input_head = Len(span) - consumed
        /\ \A i \in 1..input_head : input[i] = span[consumed + i]
        /\ span = TestInputReceive => input_head = 2

C8_Witness ==
    /\ Returned("parse")
    /\ span = TestInputReceive
    /\ consumed = 23
    /\ input_head = 2
    /\ SubSeq(input, 1, 2) = <<126, 85>>

\* C9: when the extractor succeeds, new_frame holds the first valid frame of
\* the span, the frame and everything before it are removed, tail is 0, head
\* is reduced by the removed bytes and the bytes after the frame are at the
\* front of the input.
C9_ExtractRemovesFirstFrame ==
    (Returned("extract") /\ status = DIGIMESH_OK) =>
        /\ FramePositions(span) # {}
        /\ LET p == Minimum(FramePositions(span))
               f == FrameAt(span, p)
               removed == p - 1 + Len(f)
           IN  /\ IsPrefix(f, new_frame)
               /\ input_tail = 0
               /\ input_head = Len(span) - removed
               /\ SubSeq(input, 1, input_head) = SubSeq(span, removed + 1, Len(span))

\* C10: the extractor returns DIGIMESH_ERROR exactly when digimesh_parse_bytes
\* on the same span emits no frame; otherwise it returns DIGIMESH_OK and
\* its frame is the first frame digimesh_parse_bytes emits.
C10_ExtractorAgreesWithParser ==
    Returned("extract") =>
        LET parsed == digimesh_parse_bytes(span, Len(span), 0, << >>, 0).emitted
        IN  /\ status = DIGIMESH_ERROR <=> parsed = << >>
            /\ status = DIGIMESH_OK =>
                  /\ parsed # << >>
                  /\ IsPrefix(parsed[1], new_frame)

\* C11: every call of digimesh_parse_bytes, whatever the byte span, ends by
\* returning DIGIMESH_OK: malformed input is never reported as an error and
\* the default branch of the state switch is never taken.
C11_ParseAlwaysReturnsOK ==
    op = "parse" => pc = "run" /\ status = DIGIMESH_OK

\* the part of C11 that the code keeps: a call that never stages past the
\* last element of new_frame returns DIGIMESH_OK
C11_ReturnsOKWithinCapacity ==
    (op = "parse" /\ max_idx < MAX_FRAME_SIZE) => pc = "run" /\ status = DIGIMESH_OK

(***************************************************************************)
(* Properties of the validator and the encoders                            *)
(***************************************************************************)
EncoderSucceeded ==
    /\ Returned("at_command") \/ Returned("transmit_request")
    /\ status = DIGIMESH_OK

\* the bytes the last encoder call wrote
WrittenFrame == SubSeq(message, 1, written)

\* 'c','r','u','m','b' of TEST(Test, check_set_name_frame)
TestName == <<99, 114, 117, 109, 98>>

\* C12: after every successful call of either encoder the last byte written
\* is 0xFF minus the sum, mod 256, of the written bytes from offset 3 up to
\* but excluding the last byte.
C12_EncoderChecksum ==
    EncoderSucceeded =>
        message[written] = 255 - (SumRange(message, 4, written - 1) % 256)

C12_Witness ==
    /\ Returned("at_command")
    /\ field = DIGIMESH_AT_NI
    /\ value = TestName
    /\ status = DIGIMESH_OK
    /\ WrittenFrame = <<126, 0, 9, 8, 1, 78, 73, 99, 114, 117, 109, 98, 70>>

\* the 2-character ASCII wire names of the fields, in the order of
\* digimesh_at_command_t: ID, CH, NI, SM, SN, SO, ST, SP, WH, SH, SL, WR
WireNames ==
    << <<73, 68>>, <<67, 72>>, <<78, 73>>, <<83, 77>>, <<83, 78>>, <<83, 79>>,
       <<83, 84>>, <<83, 80>>, <<87, 72>>, <<83, 72>>, <<83, 76>>, <<87, 82>> >>

\* the little-endian magnitude of a value of at most three bytes
RECURSIVE Magnitude(_)
Magnitude(v) ==
    IF v = << >> THEN 0 ELSE v[1] + 256 * Magnitude(Tail(v))

NumericFields ==
    {DIGIMESH_AT_CH, DIGIMESH_AT_SM, DIGIMESH_AT_SN, DIGIMESH_AT_SO,
     DIGIMESH_AT_ST, DIGIMESH_AT_SP, DIGIMESH_AT_WH}

ZeroValueFields == {DIGIMESH_AT_SH, DIGIMESH_AT_SL, DIGIMESH_AT_WR}

\* the declared value lengths and the inclusive ranges of the numeric fields
FieldLen ==
    [f \in NumericFields |->
        CASE f = DIGIMESH_AT_CH -> 1
          [] f = DIGIMESH_AT_SM -> 1
          [] f = DIGIMESH_AT_SN -> 2
          [] f = DIGIMESH_AT_SO -> 2
          [] f = DIGIMESH_AT_ST -> 3
          [] f = DIGIMESH_AT_SP -> 3
          [] f = DIGIMESH_AT_WH -> 2]

FieldMin ==
    [f \in NumericFields |->
        CASE f = DIGIMESH_AT_CH -> 11
          [] f = DIGIMESH_AT_SN -> 1
          [] f = DIGIMESH_AT_ST -> 1
          [] OTHER -> 0]

FieldMax ==
    [f \in NumericFields |->
        CASE f = DIGIMESH_AT_CH -> 26
          [] f = DIGIMESH_AT_SM -> 8
          [] f = DIGIMESH_AT_SN -> 65535
          [] f = DIGIMESH_AT_ST -> 3600000
          [] OTHER -> 318]

\* (f, v) is within the domain of the field
InDomain(f, v) ==
    CASE f \in NumericFields ->
            /\ v # << >>
            /\ Len(v) <= FieldLen[f]
            /\ Magnitude(v) >= FieldMin[f]
            /\ Magnitude(v) <= FieldMax[f]
      [] f = DIGIMESH_AT_NI -> Len(v) <= 20 /\ \A i \in 1..Len(v) : v[i] <= 127
      [] f = DIGIMESH_AT_ID -> Len(v) <= 2
      [] OTHER -> v = << >>

\* the frame carries the wire name of the field at offsets 5..6 and the
\* value at offsets 7..7+len(value)-1
CarriesNameAndValue ==
    /\ status = DIGIMESH_OK
    /\ SubSeq(message, 6, 7) = WireNames[field + 1]
    /\ SubSeq(message, 8, 7 + Len(value)) = value

\* C13: for every field and every value within the field's domain the AT
\* encoder succeeds and writes the field's wire name at offsets 5..6 and
\* the value unchanged behind it.
C13_NameAndValueCarried ==
    (Returned("at_command") /\ InDomain(field, value)) => CarriesNameAndValue

\* the part of C13 that the code keeps: every field but WR
C13_NameAndValueCarried_ExceptWR ==
    (Returned("at_command") /\ InDomain(field, value) /\ field # DIGIMESH_AT_WR)
        => CarriesNameAndValue

\* the 16-bit big-endian LENGTH field of the written frame
LengthField == 256 * message[2] + message[3]

\* C14 as stated: LENGTH = 1 + 2 + len(value), TYPE = 0x08, FRAME_ID = 1.
C14_AtLength_Stated ==
    (Returned("at_command") /\ status = DIGIMESH_OK) =>
        /\ LengthField = 1 + 2 + Len(value)
        /\ message[4] = 8
        /\ message[5] = 1

\* C14: the LENGTH field that the AT encoder writes big-endian at offsets
\* 1..2 equals 1 + 1 + 2 + len(value) (TYPE, FRAME_ID, name, value), with
\* TYPE = 0x08 at offset 3 and FRAME_ID = 1 at offset 4.
C14_AtLength ==
    (Returned("at_command") /\ status = DIGIMESH_OK) =>
        /\ message[2] = 0
        /\ message[3] = 1 + 1 + 2 + Len(value)
        /\ message[4] = 8
        /\ message[5] = 1

\* TEST(Test, check_set_network_id_frame)
C14_Witness ==
    /\ Returned("at_command")
    /\ field = DIGIMESH_AT_ID
    /\ value = <<10>>
    /\ WrittenFrame = <<126, 0, 5, 8, 1, 73, 68, 10, 95>>

\* C15: in every frame written by either encoder the big-endian LENGTH
\* field is the number of bytes from TYPE through the end of BODY, the
\* number of bytes written is LENGTH + 4, and digimesh_get_frame_size of the
\* written frame is the number of bytes written.
C15_LengthCountsTypeToBody ==
    EncoderSucceeded =>
        /\ LengthField = Len(SubSeq(message, 4, written - 1))
        /\ written = LengthField + 4
        /\ digimesh_get_frame_size(message) = written

\* TEST(Test, validate_transmit_request_message)
C15_Witness ==
    /\ Returned("transmit_request")
    /\ payload = TestPayload
    /\ destination = Fill(8, 0)
    /\ written = 26
    /\ digimesh_get_frame_size(message) = 26
    /\ WrittenFrame = <<126, 0, 22, 16, 1, 0, 0, 0, 0, 0, 0, 0, 0, 255, 254,
                        0, 192, 98, 105, 103, 32, 115, 108, 117, 103, 36>>

\* C16: when the validator rejects (field, value) the AT encoder returns
\* DIGIMESH_ERROR and leaves the message array unchanged; when the
\* validator accepts it returns DIGIMESH_OK.
C16_RejectedLeavesMessage ==
    Returned("at_command") =>
        /\ ~valid => status = DIGIMESH_ERROR /\ message = message_in
        /\ valid => status = DIGIMESH_OK

\* TEST(Test, validate_channel_value), on an array that holds other bytes
C16_Witness ==
    /\ Returned("at_command")
    /\ field = DIGIMESH_AT_CH
    /\ value = <<10>>
    /\ ~valid
    /\ status = DIGIMESH_ERROR
    /\ message = Fill(DIGIMESH_MAXIMUM_FRAME_SIZE, 170)

\* C17: for every numeric field and every non-empty value no longer than
\* the field's length, value_is_valid returns true exactly when the
\* little-endian magnitude of the value lies in the field's inclusive range
\* (CH [0x0B,0x1A], SM [0,8], SN [1,0xFFFF], SO [0,0x13E], ST [1,0x36EE80],
\* SP [0,0x13E], WH [0,0x13E]).
C17_NumericRanges ==
    (Returned("value_is_valid") /\ field \in NumericFields
        /\ value # << >> /\ Len(value) <= FieldLen[field])
    => (valid <=> /\ Magnitude(value) >= FieldMin[field]
                  /\ Magnitude(value) <= FieldMax[field])

\* the largest wake time, 0x36EE80, is accepted
C17_Witness ==
    /\ Returned("value_is_valid")
    /\ field = DIGIMESH_AT_ST
    /\ value = <<128, 238, 54>>
    /\ valid

\* C18: for SH, SL and WR value_is_valid returns true exactly when the
\* value is empty, so the AT encoder succeeds for them only with an empty
\* value.
C18_ZeroValueFields ==
    /\ (Returned("value_is_valid") /\ field \in ZeroValueFields)
          => (valid <=> Len(value) = 0)
    /\ (Returned("at_command") /\ field \in ZeroValueFields)
          => (status = DIGIMESH_OK <=> Len(value) = 0)

\* TEST(Test, get_serial_high)
C18_Witness ==
    /\ Returned("at_command")
    /\ field = DIGIMESH_AT_SH
    /\ value = << >>
    /\ status = DIGIMESH_OK
    /\ WrittenFrame = <<126, 0, 4, 8, 1, 83, 72, 91>>

\* C19: for NI value_is_valid returns true exactly when the value is at
\* most 20 bytes long and every byte of it is in 0..127.
C19_NameField ==
    (Returned("value_is_valid") /\ field = DIGIMESH_AT_NI)
    => (valid <=> /\ Len(value) <= 20
                  /\ \A i \in 1..Len(value) : value[i] \in 0..127)

\* a name of 20 letters is accepted
C19_Witness ==
    /\ Returned("value_is_valid")
    /\ field = DIGIMESH_AT_NI
    /\ value = Fill(20, 65)
    /\ valid

\* C20: for every field the AT encoder returns an error for a value longer
\* than the maximum frame size of 128 bytes.
C20_OversizeValueRejected ==
    (Returned("at_command") /\ Len(value) > DIGIMESH_MAXIMUM_FRAME_SIZE)
        => status = DIGIMESH_ERROR /\ message = message_in

\* 129 zero bytes for SP, whose rule has no length test of its own
C20_Witness ==
    /\ Returned("at_command")
    /\ field = DIGIMESH_AT_SP
    /\ value = Fill(DIGIMESH_MAXIMUM_FRAME_SIZE + 1, 0)
    /\ status = DIGIMESH_ERROR

\* C21: the transmit request encoder returns DIGIMESH_ERROR exactly when the
\* payload is longer than 65 bytes, and then writes nothing to
\* generated_frame; for every payload of 0..65 bytes it returns DIGIMESH_OK.
C21_PayloadCap ==
    Returned("transmit_request") =>
        /\ status = DIGIMESH_ERROR <=> Len(payload) > 65
        /\ status = DIGIMESH_ERROR => message = message_in /\ written = 0
        /\ Len(payload) \in 0..65 => status = DIGIMESH_OK

\* a payload of 66 bytes is refused and the array keeps its bytes
C21_Witness ==
    /\ Returned("transmit_request")
    /\ payload = Fill(DIGIMESH_MAX_PAYLOAD_SIZE + 1, 0)
    /\ status = DIGIMESH_ERROR
    /\ message = Fill(DIGIMESH_MAXIMUM_FRAME_SIZE, 170)

\* C22: for every destination and every payload of n <= 65 bytes the
\* transmit request encoder writes exactly 0x7E, LENGTH = 14 + n big-endian,
\* TYPE 0x10, FRAME_ID 0x01, the 8 address bytes, 0xFF 0xFE, 0x00, 0xC0, the
\* payload unchanged and the checksum: 18 + n bytes.
C22_TransmitRequestLayout ==
    (Returned("transmit_request") /\ Len(payload) <= 65) =>
        LET n == Len(payload)
            body == <<16, 1>> \o destination \o <<255, 254, 0, 192>> \o payload
        IN  /\ written = 18 + n
            /\ WrittenFrame = <<126, (14 + n) \div 256, (14 + n) % 256>>
                                \o body \o <<WireChecksum(body)>>

\* the longest payload, to an address that holds a 0x7E
C22_Witness ==
    /\ Returned("transmit_request")
    /\ destination = <<0, 19, 162, 0, 65, 126, 1, 2>>
    /\ payload = Fill(DIGIMESH_MAX_PAYLOAD_SIZE, 255)
    /\ status = DIGIMESH_OK
    /\ written = 83
    /\ SubSeq(message, 1, 17) =
          <<126, 0, 79, 16, 1, 0, 19, 162, 0, 65, 126, 1, 2, 255, 254, 0, 192>>

\* C23: every frame that either encoder writes on a successful call is at
\* most 128 bytes long.
C23_FrameFitsMaximumSize ==
    EncoderSucceeded => written <= DIGIMESH_MAXIMUM_FRAME_SIZE

\* the part of C23 that the code keeps: the transmit request encoder, and
\* the AT encoder for every field but SP and WH
C23_FrameFitsMaximumSize_ExceptSPWH ==
    (EncoderSucceeded /\ field \notin {DIGIMESH_AT_SP, DIGIMESH_AT_WH})
        => written <= DIGIMESH_MAXIMUM_FRAME_SIZE

(***************************************************************************)
(* Properties of the inspectors                                            *)
(***************************************************************************)
\* the 16-bit big-endian value of bytes 1..2 of the frame
Be16(f) == 256 * f[2] + f[3]

\* total_size of the wire format
TotalSize(f) == Be16(f) + 4

\* C24: for every frame buffer, digimesh_get_frame_size returns the 16-bit
\* big-endian value of bytes 1..2 plus 4.
C24_FrameSize ==
    Returned("get_frame_size") => result = TotalSize(rx_frame)

\* the part of C24 that the code keeps: sizes that fit the uint8_t returned
C24_FrameSize_UpTo255 ==
    (Returned("get_frame_size") /\ TotalSize(rx_frame) <= 255)
        => result = TotalSize(rx_frame)

\* C25: for every type-0x90 receive-packet frame,
\* digimesh_extract_payload_from_receive_frame copies exactly the bytes
\* frame[15 .. total_size-2] into payload and returns their count,
\* total_size - 16.
C25_ExtractPayload ==
    (/\ Returned("extract_payload_from_receive_frame")
     /\ IsWireFrame(rx_frame)
     /\ rx_frame[4] = DIGIMESH_FRAME_TYPE_RECEIVE_PACKET)
        => /\ result = TotalSize(rx_frame) - 16
           /\ copied = SubSeq(rx_frame, 16, TotalSize(rx_frame) - 1)

\* the part of C25 that the code keeps: receive packets that hold their
\* 15-byte header and at most 255 payload bytes
C25_ExtractPayload_UpTo255 ==
    (/\ Returned("extract_payload_from_receive_frame")
     /\ IsWireFrame(rx_frame)
     /\ rx_frame[4] = DIGIMESH_FRAME_TYPE_RECEIVE_PACKET
     /\ TotalSize(rx_frame) - 16 \in 0..255)
        => /\ result = TotalSize(rx_frame) - 16
           /\ copied = SubSeq(rx_frame, 16, TotalSize(rx_frame) - 1)

\* C26: for every local-AT-response frame,
\* digimesh_get_local_at_response_size returns be16(frame[1..2]) - 5 and
\* digimesh_get_at_command_response_value copies exactly that many bytes
\* starting at frame[8] into value, never more bytes than the frame holds
\* between offset 8 and its checksum.
C26_ResponseValue ==
    (/\ IsWireFrame(rx_frame)
     /\ rx_frame[4] = DIGIMESH_FRAME_TYPE_LOCAL_AT_COMMAND_RESPONSE)
        => /\ Returned("get_local_at_response_size")
                => result = Be16(rx_frame) - 5
           /\ Returned("get_at_command_response_value")
                => /\ Len(copied) = Be16(rx_frame) - 5
                   /\ copied = SubSeq(rx_frame, 9, 8 + Len(copied))
                   /\ Len(copied) <= Len(rx_frame) - 9

\* the part of C26 that the code keeps: responses that hold their status
\* byte and at most 255 value bytes
C26_ResponseValue_UpTo255 ==
    (/\ IsWireFrame(rx_frame)
     /\ rx_frame[4] = DIGIMESH_FRAME_TYPE_LOCAL_AT_COMMAND_RESPONSE
     /\ Be16(rx_frame) - 5 \in 0..255)
        => /\ Returned("get_local_at_response_size")
                => result = Be16(rx_frame) - 5
           /\ Returned("get_at_command_response_value")
                => /\ Len(copied) = Be16(rx_frame) - 5
                   /\ copied = SubSeq(rx_frame, 9, 8 + Len(copied))
                   /\ Len(copied) <= Len(rx_frame) - 9

\* the name at offsets 5..6 of a frame that holds them
NameInFrame == <<rx_frame[6], rx_frame[7]>>

\* C27: digimesh_get_command_from_at_response returns field f exactly when
\* frame[5..6] equals the 2-character wire name of f, for every f in ID, CH,
\* NI, SM, SN, SO, ST, SP, WH, SH, SL, WR, and returns DIGIMESH_AT_END for
\* every other pair of bytes.
C27_CommandFromResponse ==
    (Returned("get_command_from_at_response") /\ Len(rx_frame) >= 7) =>
        /\ \A f \in Fields : result = f <=> NameInFrame = WireNames[f + 1]
        /\ result = DIGIMESH_AT_END
              <=> \A f \in Fields : NameInFrame # WireNames[f + 1]

\* the part of C27 that the code keeps: every pair of bytes but 'W','R' and
\* 0x00 0x00
C27_CommandFromResponse_ExceptWR ==
    (/\ Returned("get_command_from_at_response")
     /\ Len(rx_frame) >= 7
     /\ NameInFrame \notin {<<87, 82>>, <<0, 0>>}) =>
        /\ \A f \in Fields : result = f <=> NameInFrame = WireNames[f + 1]
        /\ result = DIGIMESH_AT_END
              <=> \A f \in Fields : NameInFrame # WireNames[f + 1]

(***************************************************************************)
(* Properties of the address registry                                      *)
(***************************************************************************)
\* the position in reg_ops of the last digi_init, 0 if there was none
LastInit ==
    LET inits == {i \in 1..Len(reg_ops) : reg_ops[i].op = "digi_init"}
    IN  IF inits = {} THEN 0 ELSE CHOOSE i \in inits : \A j \in inits : j <= i

\* the positions of the digi_register calls after the last digi_init
RegistersSinceInit ==
    {i \in (LastInit + 1)..Len(reg_ops) : reg_ops[i].op = "digi_register"}

\* the serial has a byte that is not 0xFF
HasOtherByte(serial) == \E i \in 1..Len(serial) : serial[i] # 255

\* the serial given to the last digi_register after the last digi_init
LastRegistered ==
    reg_ops[CHOOSE i \in RegistersSinceInit :
                \A j \in RegistersSinceInit : j <= i].serial

\* C28 as stated: after digi_init, digi_is_initialized returns false until a
\* digi_register with a serial that has a byte different from 0xFF; after
\* such a digi_register it returns true, and digi_get_serial returns the
\* last registered serial, until the next digi_init.
C28_Registry_Stated ==
    LastInit > 0 =>
        LET some == \E i \in RegistersSinceInit : HasOtherByte(reg_ops[i].serial)
        IN  /\ Returned("digi_is_initialized") => (initialized <=> some)
            /\ (Returned("digi_get_serial") /\ some)
                  => serial_out = LastRegistered

\* C28: after digi_init, digi_is_initialized returns true exactly when the
\* last digi_register since that digi_init gave a serial with a byte
\* different from 0xFF, and digi_get_serial returns the last registered
\* serial, or eight 0xFF bytes if there was no digi_register.
C28_Registry ==
    LastInit > 0 =>
        /\ Returned("digi_is_initialized")
              => (initialized <=> /\ RegistersSinceInit # {}
                                  /\ HasOtherByte(LastRegistered))
        /\ Returned("digi_get_serial")
              => serial_out = IF RegistersSinceInit = {}
                              THEN <<255, 255, 255, 255, 255, 255, 255, 255>>
                              ELSE LastRegistered

\* digi_init, then a serial whose last byte alone is not 0xFF is registered
C28_Witness ==
    /\ Returned("digi_is_initialized")
    /\ Len(reg_ops) = 3
    /\ reg_ops[1].op = "digi_init"
    /\ reg_ops[2] = [op |-> "digi_register",
                     serial |-> <<255, 255, 255, 255, 255, 255, 255, 0>>]
    /\ initialized

(***************************************************************************)
(* Properties of the scan inside one call                                  *)
(***************************************************************************)
\* the scan state of the last call after its first n loop iterations
ScanAfter(n) ==
    IF op = "extract"
    THEN ExtractLoop(ScanInit(0, << >>, << >>, 0), span, 0, n)
    ELSE ParseLoop(ScanInit(0, << >>, << >>, 0), span, 0, n)

\* the loop of the last call is still running after n iterations
Scanning(n) == ~ScanAfter(n).packet_found /\ ~ScanAfter(n).in_default

\* the bytes of the candidate in progress before span[p]: a candidate starts
\* at a 0x7E, and every 0x7E starts one
StagedBefore(p) ==
    LET starts == {q \in 1..(p - 1) : span[q] = START_DELIMITER}
    IN  p - (CHOOSE q \in starts : \A r \in starts : r <= q)

\* the positions of span at which a 0x7E is met in a state other than START
MidCandidateDelimiters ==
    {p \in 1..Len(span) :
        /\ span[p] = START_DELIMITER
        /\ Scanning(p - 1)
        /\ ScanAfter(p - 1).state # "START"}

\* the 0x7E at span[p] moved the consumed boundary over the candidate in
\* progress and is the first byte of a new candidate
RestartedAt(p) ==
    /\ ScanAfter(p).tail = ScanAfter(p - 1).tail + StagedBefore(p)
    /\ ScanAfter(p).state = "LEN0"
    /\ ScanAfter(p).frame_count = 1
    /\ At(ScanAfter(p).new_frame, 0) = START_DELIMITER

\* C29: in the parser and the extractor, a 0x7E met in any state other than
\* START discards the candidate in progress by advancing the consumed
\* boundary by exactly the number of bytes staged so far, and starts a new
\* candidate whose first byte is that 0x7E.
C29_DelimiterRestartsCandidate ==
    (Returned("parse") \/ Returned("extract"))
        => \A p \in MidCandidateDelimiters : RestartedAt(p)

\* the part of C29 that the code keeps: candidates that fit the staging array
C29_DelimiterRestartsCandidate_WithinCapacity ==
    (Returned("parse") \/ Returned("extract"))
        => \A p \in MidCandidateDelimiters :
              ScanAfter(p - 1).max_idx < MAX_FRAME_SIZE => RestartedAt(p)

\* C30: the parser captures the body length of a candidate as
\* 256 * LEN_HI + LEN_LO, so every emitted frame has size
\* be16(frame[1..2]) + 4.
C30_EmittedSizeIsBe16Plus4 ==
    Returned("parse")
        => \A i \in 1..Len(emitted) : Len(emitted[i]) = TotalSize(emitted[i])

\* the part of C30 that the code keeps: frames whose LEN_HI is zero
C30_EmittedSizeIsLenLoPlus4 ==
    Returned("parse")
        => \A i \in 1..Len(emitted) : Len(emitted[i]) = emitted[i][3] + 4

(***************************************************************************)
(* Properties of a span that ends inside a candidate                       *)
(***************************************************************************)
\* the position of the last 0x7E of span, 0 if it has none
LastDelimiter ==
    LET starts == {q \in 1..Len(span) : span[q] = START_DELIMITER}
    IN  IF starts = {} THEN 0
        ELSE CHOOSE q \in starts : \A r \in starts : r <= q

\* the bytes of span from its last 0x7E on
LastCandidate == SubSeq(span, LastDelimiter, Len(span))

\* span ends in a 0x7E followed by fewer bytes than the frame it declares
\* needs: its length bytes are missing, or fewer than be16 + 4 bytes are there
EndsInCandidate ==
    /\ LastDelimiter > 0
    /\ \/ Len(LastCandidate) < 3
       \/ Len(LastCandidate) < TotalSize(LastCandidate)

\* the last call kept exactly the bytes of the candidate at the end of span
CandidateRetained ==
    /\ input_tail = 0
    /\ input_head = Len(LastCandidate)
    /\ SubSeq(input, 1, input_head) = LastCandidate

\* C31: when the scanned span ends in the middle of a candidate,
\* digimesh_parse_bytes emits nothing for that candidate, leaves output_head
\* unchanged if no earlier frame was found, and retains exactly the
\* candidate's bytes: input[0] is 0x7E, input_tail is 0 and input_head is the
\* number of candidate bytes seen.
C31_PartialCandidateRetained ==
    (Returned("parse") /\ EndsInCandidate) =>
        /\ CandidateRetained
        /\ input[1] = START_DELIMITER
        /\ (FirstCall("parse") /\ emitted = << >>) => output_head = 0

\* the part of C31 that the code keeps: the candidate declares a length high
\* byte of 0 and the call staged nothing behind the staging array
C31_PartialCandidateRetained_WithinCapacity ==
    (/\ Returned("parse")
     /\ EndsInCandidate
     /\ max_idx < MAX_FRAME_SIZE
     /\ Len(LastCandidate) >= 2 => LastCandidate[2] = 0) =>
        /\ CandidateRetained
        /\ input[1] = START_DELIMITER
        /\ (FirstCall("parse") /\ emitted = << >>) => output_head = 0

\* the position of the last 0x7E of s, 0 if it has none
LastDelimiterOf(s) ==
    LET starts == {q \in 1..Len(s) : s[q] = START_DELIMITER}
    IN  IF starts = {} THEN 0
        ELSE CHOOSE q \in starts : \A r \in starts : r <= q

\* the first k bytes of stream were given to a first call of the extractor,
\* which found no frame, and the rest was appended to what it left
FirstSpanWas(k) ==
    LET r == digimesh_extract_first_digimesh_packet(SubSeq(stream, 1, k), k, 0, << >>)
    IN  /\ SubSeq(stream, k + 1, Len(stream)) \in Chunks(SubSeq(stream, 1, k))
        /\ r.status = DIGIMESH_ERROR
        /\ span = SubSeq(r.input, 1, r.head) \o SubSeq(stream, k + 1, Len(stream))

\* the first k bytes of stream end inside a candidate that the appended
\* bytes complete to a frame of the wire format without an inner 0x7E
CompletedByAppend(k) ==
    LET q == LastDelimiterOf(SubSeq(stream, 1, k))
    IN  /\ q > 0
        /\ q \in FramePositions(stream)
        /\ Len(FrameAt(stream, q)) > k - q + 1
        /\ NoInnerDelimiter(FrameAt(stream, q))

\* C32: when the extractor finds no valid frame and the span ends in a
\* partial candidate, the candidate's bytes are preserved at the front of the
\* input (head = their count, tail = 0), so that a later call made after the
\* rest of the frame has been appended returns that frame.
C32_ExtractorKeepsPartialCandidate ==
    /\ (Returned("extract") /\ status = DIGIMESH_ERROR /\ EndsInCandidate)
          => CandidateRetained
    /\ (pc = "run" /\ ops = <<"extract", "append", "extract">>)
          => \A k \in 1..(Len(stream) - 1) :
                (FirstSpanWas(k) /\ CompletedByAppend(k))
                   => /\ status = DIGIMESH_OK
                      /\ emitted = <<FrameAt(stream, LastDelimiterOf(SubSeq(stream, 1, k)))>>

\* the part of C32 that the code keeps: the candidate declares a length high
\* byte of 0 and the call staged nothing behind the staging array
C32_ExtractorKeepsPartialCandidate_WithinCapacity ==
    /\ (/\ Returned("extract")
        /\ status = DIGIMESH_ERROR
        /\ EndsInCandidate
        /\ max_idx < MAX_FRAME_SIZE
        /\ Len(LastCandidate) >= 2 => LastCandidate[2] = 0)
          => CandidateRetained
    /\ (pc = "run" /\ ops = <<"extract", "append", "extract">>
           /\ max_idx < MAX_FRAME_SIZE)
          => \A k \in 1..(Len(stream) - 1) :
                (FirstSpanWas(k) /\ CompletedByAppend(k))
                   => /\ status = DIGIMESH_OK
                      /\ emitted = <<FrameAt(stream, LastDelimiterOf(SubSeq(stream, 1, k)))>>

\* 7E 00 is kept by a first call and completed by 00 FF
C32_Completed ==
    /\ pc = "run"
    /\ ops = <<"extract", "append", "extract">>
    /\ stream = <<126, 0, 0, 255>>
    /\ FirstSpanWas(2)
    /\ CompletedByAppend(2)
    /\ status = DIGIMESH_OK

\* the last call is the only call of the extractor so far: the caller's
\* new_frame array had nothing written before it
OnlyExtract == Returned("extract") /\ Count(ops, "extract") = 1

\* C33: the extractor writes to the caller's new_frame only a validated
\* frame: when it returns DIGIMESH_ERROR, new_frame is unchanged from its
\* contents before the call.
C33_NewFrameUnchangedOnError ==
    (OnlyExtract /\ status = DIGIMESH_ERROR) => new_frame = << >>

\* the part of C33 that the code keeps: a span without a 0x7E stages nothing
C33_NewFrameUnchangedWithoutDelimiter ==
    (OnlyExtract /\ status = DIGIMESH_ERROR /\ LastDelimiter = 0)
        => new_frame = << >>

\* C34: for every numeric AT field, value_is_valid rejects a value longer
\* than the field's declared value length (CH 1, SM 1, SN 2, SO 2, ST 3,
\* SP 3, WH 2 bytes), whatever the value's bytes are.
C34_LongValueRejected ==
    (/\ Returned("value_is_valid")
     /\ field \in NumericFields
     /\ Len(value) > FieldLen[field]) => ~valid

\* the part of C34 that the code keeps: the fields with a length test
C34_LongValueRejected_ExceptSPWH ==
    (/\ Returned("value_is_valid")
     /\ field \in NumericFields \ {DIGIMESH_AT_SP, DIGIMESH_AT_WH}
     /\ Len(value) > FieldLen[field]) => ~valid

\* the positions of span at which a frame of the wire format starts that has
\* no 0x7E after its delimiter, a length high byte of 0 and a body of at most
\* MAX_FRAME_SIZE - 4 bytes
FittingFramePositions ==
    {p \in FramePositions(span) :
        /\ NoInnerDelimiter(FrameAt(span, p))
        /\ span[p + 1] = 0
        /\ span[p + 2] <= MAX_FRAME_SIZE - 4}

\* the last call of the parser emitted f
Emitted(f) == \E i \in 1..Len(emitted) : emitted[i] = f

C35_FittingFrameEmittedOnReturn ==
    Returned("parse") =>
        \A p \in FittingFramePositions : Emitted(FrameAt(span, p))

\* the response frame is emitted after a candidate with a wrong checksum and
\* after garbage
C35_AfterCorruptedCandidate ==
    /\ Returned("parse")
    /\ span = <<255>> \o WithChecksum(MkFrame(<<1>>), 126) \o <<0>> \o TestFrameNI
    /\ emitted = <<TestFrameNI>>

(***************************************************************************)
(* The encoders against the parser                                         *)
(***************************************************************************)
\* digimesh_parse_bytes given the written frame alone
ParseOfWritten == digimesh_parse_bytes(WrittenFrame, written, 0, << >>, 0)

\* the written frame is emitted byte for byte and fully consumed
RoundTrips ==
    /\ ParseOfWritten.max_idx < MAX_FRAME_SIZE
    /\ ParseOfWritten.status = DIGIMESH_OK
    /\ ParseOfWritten.emitted = <<WrittenFrame>>
    /\ SubSeq(ParseOfWritten.output, 1, ParseOfWritten.output_head) = WrittenFrame
    /\ ParseOfWritten.consumed = written
    /\ ParseOfWritten.input_head = 0

\* C36: every frame written by digimesh_generate_at_command_frame or
\* digimesh_generate_transmit_request_frame, for every accepted value,
\* address and payload, when given alone to digimesh_parse_bytes is emitted
\* byte for byte and fully consumed.
C36_EncodeThenParse == EncoderSucceeded => RoundTrips

\* the part of C36 that the code keeps: frames without a 0x7E after the
\* delimiter that fit the staging array
C36_EncodeThenParse_Fitting ==
    (/\ EncoderSucceeded
     /\ NoInnerDelimiter(WrittenFrame)
     /\ written <= MAX_FRAME_SIZE) => RoundTrips

\* the frame of TEST(Test, validate_transmit_request_message) round trips
C36_TestFrameRoundTrips ==
    /\ Returned("transmit_request")
    /\ payload = TestPayload
    /\ destination = Fill(8, 0)
    /\ RoundTrips

(***************************************************************************)
(* The consumed boundary during a scan                                     *)
(***************************************************************************)
\* the bytes of the candidate in progress after n loop iterations: the bytes
\* from the last 0x7E on, none when the scan is looking for a 0x7E or has
\* found its frame
StagedAfter(n) ==
    IF ScanAfter(n).state = "START" \/ ScanAfter(n).packet_found THEN 0
    ELSE n + 1 - LastDelimiterOf(SubSeq(span, 1, n))

\* every one of the first n bytes is consumed or staged
Accounted(n) == ScanAfter(n).tail + StagedAfter(n) = n

\* C37: during a scan by digimesh_parse_bytes or the extractor entered with
\* tail = 0, after the byte at index idx has been processed the consumed
\* boundary plus the number of staged candidate bytes equals idx + 1; hence
\* the boundary never exceeds head.
C37_ConsumedPlusStaged ==
    (Returned("parse") \/ Returned("extract")) =>
        /\ \A n \in 1..Len(span) : Scanning(n - 1) => Accounted(n)
        /\ consumed <= Len(span)

\* the part of C37 that the code keeps: scans that stage nothing behind the
\* staging array
C37_ConsumedPlusStaged_WithinCapacity ==
    ((Returned("parse") \/ Returned("extract")) /\ max_idx < MAX_FRAME_SIZE) =>
        /\ \A n \in 1..Len(span) : Scanning(n - 1) => Accounted(n)
        /\ consumed <= Len(span)

(***************************************************************************)
(* Repeated calls                                                          *)
(***************************************************************************)
\* the first call of digimesh_parse_bytes, on the bytes given at the start
FirstParse == digimesh_parse_bytes(stream, Len(stream), 0, << >>, 0)

\* the second call emitted nothing, consumed nothing and left everything as
\* the first call returned it
SecondParseChangedNothing ==
    /\ status = DIGIMESH_OK
    /\ emitted = << >>
    /\ consumed = 0
    /\ input = FirstParse.input
    /\ input_head = FirstParse.input_head
    /\ input_tail = FirstParse.input_tail
    /\ output_head = FirstParse.output_head

\* C38: calling digimesh_parse_bytes a second time on the returned (input,
\* input_head, input_tail) without appending bytes emits no frame, consumes
\* nothing and leaves the buffer, input_head, input_tail and output_head
\* unchanged.
C38_SecondParseIdempotent ==
    (pc = "run" /\ ops = <<"parse", "parse">>) => SecondParseChangedNothing

\* the part of C38 that the code keeps: the first call staged nothing behind
\* the staging array
C38_SecondParseIdempotent_WithinCapacity ==
    (pc = "run" /\ ops = <<"parse", "parse">>
        /\ FirstParse.max_idx < MAX_FRAME_SIZE) => SecondParseChangedNothing

\* the second call on the two bytes that the receive-packet test leaves
C38_TestRemainderKept ==
    /\ pc = "run"
    /\ ops = <<"parse", "parse">>
    /\ stream = TestInputReceive
    /\ SubSeq(input, 1, input_head) = <<126, 85>>
    /\ SecondParseChangedNothing

\* the positions of the 0x7E bytes of the bytes given at the start
Delimiters == {p \in 1..Len(stream) : stream[p] = START_DELIMITER}

\* the bytes given at the start are valid frames, none with a 0x7E after its
\* delimiter, separated by garbage without a 0x7E
FramesAndGarbage ==
    \A p \in Delimiters :
        /\ p \in FramePositions(stream)
        /\ NoInnerDelimiter(FrameAt(stream, p))

\* the position of the i-th frame
NthDelimiter(i) ==
    CHOOSE p \in Delimiters : Cardinality({q \in Delimiters : q <= p}) = i

\* the result of the k-th call of the extractor in a row, k >= 1
RECURSIVE NthExtract(_)
NthExtract(k) ==
    IF k = 1
    THEN digimesh_extract_first_digimesh_packet(stream, Len(stream), 0, << >>)
    ELSE LET r == NthExtract(k - 1)
         IN  digimesh_extract_first_digimesh_packet(r.input, r.head, r.tail, r.new_frame)

\* the calls return the frames one per call in input order, each shrinking
\* head by the frame and the garbage before it, and the call after the last
\* frame returns DIGIMESH_ERROR and leaves head = 0
OnePerCall ==
    LET n == Cardinality(Delimiters)
    IN  /\ \A i \in 1..n :
              LET p == NthDelimiter(i)
                  f == FrameAt(stream, p)
              IN  /\ NthExtract(i).status = DIGIMESH_OK
                  /\ IsPrefix(f, NthExtract(i).new_frame)
                  /\ NthExtract(i).emitted = <<f>>
                  /\ NthExtract(i).head = Len(stream) - (p + Len(f) - 1)
        /\ NthExtract(n + 1).status = DIGIMESH_ERROR
        /\ NthExtract(n + 1).head = 0

\* the state is the one after the first call of such a row
FirstOfRow ==
    /\ FirstCall("extract")
    /\ input_head = NthExtract(1).head
    /\ new_frame = NthExtract(1).new_frame

\* C39: calling the extractor repeatedly on a buffer that holds n valid
\* frames (none with an interior 0x7E) separated by delimiter-free garbage
\* returns the n frames one per call in input order, each call shrinking head
\* by the frame and the garbage before it; the call after the last frame
\* returns DIGIMESH_ERROR and leaves head = 0.
C39_OneFramePerCall ==
    (FirstOfRow /\ FramesAndGarbage) => OnePerCall

\* the part of C39 that the code keeps: frames that fit the staging array
C39_OneFramePerCall_WithinCapacity ==
    (/\ FirstOfRow
     /\ FramesAndGarbage
     /\ \A p \in Delimiters : Len(FrameAt(stream, p)) <= MAX_FRAME_SIZE)
        => OnePerCall

\* the three frames of TEST(Test, extract_a_frame_from_an_array_of_frames)
C39_TestThreeFrames ==
    /\ FirstOfRow
    /\ stream = TestInputThreeFrames
    /\ FramesAndGarbage
    /\ OnePerCall
    /\ NthExtract(3).emitted = <<TestFrameReceive2>>

====
